---- MODULE Spec2Model ----
(***************************************************************************)
(* Rain-alert engine of the weather bot: the hourly-forecast extractor     *)
(* (weather_service.get_detailed_rain_alert), the sent-alerts ledger       *)
(* (rain_alerts_tracker) and the per-user scan                             *)
(* (check_rain_alerts.check_and_send_rain_alerts).                         *)
(*                                                                         *)
(* Time is an integer number of minutes on the Europe/Rome wall clock,     *)
(* counted from 00:00 of day 0.  Precipitation is in tenths of a           *)
(* millimetre (0.1 mm = 1, 2.5 mm = 25, 7.5 mm = 75).                      *)
(***************************************************************************)
EXTENDS Integers, Sequences, FiniteSets, TLC

\* ------------------------------------------------------------------ bounds
\* Longest hourly series handed to the extractor on its own.
MaxLen == 3
\* Largest value of the extractor's hours argument tried on its own.
MaxHours == 3
\* Number of enrolled users of a scan.
NumUsers == 3
\* Number of 15-minute clock steps of one behaviour.
MaxTicks == 5
\* Number of long pauses (periods without any scan) of one behaviour.
MaxPauses == 1
\* Number of failures of collaborators (no answer, or an exception) of one
\* behaviour.
MaxFaults == 1
\* Number of times each of two overlapping runs is started.
MaxStarts == 1
\* Number of waits between calls of the lookup cache of one behaviour.
MaxWaits == 2

\* --------------------------------------------------------------- constants
\* One hour, the spacing of the forecast series, in minutes.
HourMinutes == 60
\* Granularity of the modelled clock: a quarter of an hour.
ClockStep == HourMinutes \div 4
\* One day, in minutes.
DayMinutes == 24 * HourMinutes
\* Hours scanned by default (get_detailed_rain_alert(..., hours=24)).
DefaultHours == 24
\* forecast_days of the Open-Meteo request: the series covers 5 days from
\* 00:00 of the day of the request.
ForecastDays == 5
\* Significance test: precipitation >= 0.1 mm and probability >= 20 %.
MinPrecip == 1
MinProb == 20
\* Intensity thresholds: <= 2.5 mm light, <= 7.5 mm moderate, else heavy.
LightMax == 25
ModerateMax == 75
\* Weather codes for rain, drizzle, showers and thunderstorm.
RainCodes == {51, 53, 55, 61, 63, 65, 80, 81, 82, 95, 96, 99}
\* Alert window of the scan: 15 min < lead time < 90 min.
WindowLow == 15
WindowHigh == 90
\* Cooldown passed by the scan to the ledger, in hours.
cooldown_hours == 6
\* Retention of the ledger, in hours (24 * 3600 seconds).
RetentionHours == 24
\* Interval of the scheduler, in minutes.
ScanInterval == 30
\* Length of a long pause: one day.
PauseMinutes == 24 * HourMinutes

Min(a, b) == IF a <= b THEN a ELSE b

Langs == {"en", "it"}

\* TRANSLATIONS[lang]['rain_intensity_*'].
TRANSLATIONS ==
  [ en |-> [rain_intensity_light |-> "light",
            rain_intensity_moderate |-> "moderate",
            rain_intensity_heavy |-> "heavy"],
    it |-> [rain_intensity_light |-> "leggera",
            rain_intensity_moderate |-> "moderata",
            rain_intensity_heavy |-> "forte"] ]

\* Timezone identifiers pytz knows, of those handed in.
KnownZones == {"Europe/Rome", "Europe/London"}

\* pytz.timezone(tz_string) succeeds; it raises UnknownTimeZoneError for any
\* other string.
TzKnown(tz) == tz \in KnownZones

\* Minutes by which the Rome wall clock is ahead of the wall clock of tz.
RomeAhead(tz) == IF tz = "Europe/London" THEN HourMinutes ELSE 0

\* tz.localize(naive): the instant (on the Rome scale) of a naive wall-clock
\* time of timezone tz.
Localize(naive, tz) == naive + RomeAhead(tz)

\* aware.strftime('%H:%M'): the wall-clock minute of the day, in the
\* timezone the aware time carries.
StrfHM(instant, tz) == (instant - RomeAhead(tz)) % DayMinutes

VARIABLES
  now,            \* the wall clock (minutes, Rome)
  hourly_data,    \* extractor on its own: the series handed in
  tz_string,      \* extractor on its own: the timezone handed in
  ext_lang,       \* extractor on its own: the language handed in
  ext_hours,      \* extractor on its own: the hours argument
  rain_events,    \* extractor on its own: the list returned
  ext_pc,         \* extractor on its own: "input" before, "done" after the call
  selected,       \* window pick on its own: the event picked from rain_events
  forecast,       \* the weather: hour of the day -> <<precipitation, probability, code>>
  tracker_file,   \* rain_alerts_sent.json: event key -> timestamp of the last alert
  file_partial,   \* TRUE while a writer has truncated the file and not yet dumped
  lock,           \* TRACKER_LOCK: 0 when free, else the run holding it
  disk,           \* what writing the file does: "ok", "readonly" or "full"
  pc,             \* per run: where check_and_send_rain_alerts stands
  users_with_alerts, \* per run: the enrolled users it loaded, in order
  idx,            \* per run: position of the for loop in users_with_alerts
  alerts_sent,    \* per run: counter
  skipped_alerts, \* per run: counter
  errors,         \* per run: counter
  first_rain,     \* per run: the event selected for the current user
  tracker,        \* per run: the dictionary mark_alert_as_sent is about to save
  last,           \* per run: what became of the user processed last (history)
  sent,           \* every rain alert delivered so far, in order (history)
  ticks,          \* clock steps taken so far
  pauses,         \* long pauses taken so far
  started,        \* per run: times it was started as an overlapping run
  lastScan,       \* start of the latest run since the scheduler started, else -1
  since,          \* start of the first run since the scheduler started, else -1
  faults,         \* failures of collaborators so far (history)
  users_db,       \* users.db, table users: user -> row
  rain_alerts_log, \* users.db, table rain_alerts_log: the rows, in order
  prefs_file,     \* user_preferences.json: the dictionary it holds
  t_pc,           \* per thread: where its user_prefs call stands
  t_op,           \* per thread: the user_prefs call it makes
  t_prefs,        \* per thread: the dictionary load_user_prefs gave it
  acked,          \* per user: what bot_core last confirmed (history)
  bot_reply,      \* the latest reply of a bot_core handler
  response,       \* the latest answer of the web server to a request
  m_pc,           \* where send_morning_reports stands
  users_with_cities, \* send_morning_reports: the users it loaded, in order
  m_idx,          \* send_morning_reports: position of its for loop
  successful_sends, \* send_morning_reports: counter
  failed_sends,   \* send_morning_reports: counter
  reported,       \* users the current morning run has processed (history)
  report_in,      \* get_complete_weather_report: what its collaborators give
  report_out,     \* get_complete_weather_report: what the call came to
  ADMIN_USER_ID,  \* Config.ADMIN_USER_ID: "" when the variable is not set
  admin_summary,  \* what became of the admin summary of the latest run (history)
  coordinates_cache, \* WeatherCache: cache key -> <<data, timestamp>>
  weather_cache,  \* WeatherCache: cache key -> <<data, timestamp>>
  c_last,         \* per cache key: the latest get_coordinates call (history)
  w_pc,           \* where get_weather stands: "idle" or inside _fetch_weather
  attempt,        \* _fetch_weather: the loop variable
  responses,      \* _fetch_weather: what each HTTP attempt met (history)
  w_last          \* the latest get_weather call (history)

extVars == <<hourly_data, tz_string, ext_lang, ext_hours, rain_events, ext_pc,
             selected>>
fileVars == <<tracker_file, file_partial, lock, disk>>
runVars == <<pc, users_with_alerts, idx, alerts_sent, skipped_alerts, errors,
             first_rain, tracker, last>>
histVars == <<sent, lastScan, since, faults>>
clockVars == <<ticks, pauses>>
budgetVars == <<clockVars, started>>
dbVars == <<users_db, rain_alerts_log>>
threadVars == <<t_pc, t_op, t_prefs>>
botVars == <<acked, bot_reply>>
morningVars == <<m_pc, users_with_cities, m_idx, successful_sends,
                 failed_sends, reported>>
reportVars == <<report_in, report_out>>
appVars == <<dbVars, prefs_file, threadVars, botVars, response, morningVars,
             reportVars>>
adminVars == <<ADMIN_USER_ID, admin_summary>>
cacheVars == <<coordinates_cache, weather_cache, c_last, w_pc, attempt,
               responses, w_last>>

\* ------------------------------------------------ the extractor (pure part)

IsPastStrict(hour_time, nowv) == hour_time < nowv

\* Lines 238-240: past hours, the current hour included, are skipped.
IsPast(hour_time, nowv) == hour_time <= nowv

IsRainEventNoCode(precip, prob, code) ==
  precip >= MinPrecip /\ prob >= MinProb

\* Lines 246-253: the significance test, or else a rain weather code.
IsRainEvent(precip, prob, code) ==
  \/ precip >= MinPrecip /\ prob >= MinProb
  \/ code \in RainCodes

IntensityMutant(precip, lang) ==
  IF precip < LightMax THEN TRANSLATIONS[lang].rain_intensity_light
  ELSE IF precip <= ModerateMax THEN TRANSLATIONS[lang].rain_intensity_moderate
  ELSE TRANSLATIONS[lang].rain_intensity_heavy

\* Lines 259-265: the intensity of an event.
Intensity(precip, lang) ==
  IF precip <= LightMax THEN TRANSLATIONS[lang].rain_intensity_light
  ELSE IF precip <= ModerateMax THEN TRANSLATIONS[lang].rain_intensity_moderate
  ELSE TRANSLATIONS[lang].rain_intensity_heavy

\* Lines 242-244: the i-th value of an optional field, 0 when it is missing.
FieldAt(field, i) == IF i <= Len(field) THEN field[i] ELSE 0

\* Lines 231-277: the loop over the first min(hours, len(times)) points
\* (i is 1-based here, range() is 0-based).
RECURSIVE ScanPoints(_, _, _, _, _, _, _)
ScanPoints(i, n, data, tz, lang, nowv, acc) ==
  IF i > n THEN acc
  ELSE
    LET hour_time == Localize(data.time[i], tz)
        precip == FieldAt(data.precipitation, i)
        prob == FieldAt(data.precipitation_probability, i)
        code == FieldAt(data.weather_code, i)
    IN IF IsPast(hour_time, nowv)
       THEN ScanPoints(i + 1, n, data, tz, lang, nowv, acc)
       ELSE IF IsRainEvent(precip, prob, code)
       THEN ScanPoints(i + 1, n, data, tz, lang, nowv,
              Append(acc, [time |-> hour_time,
                           hhmm |-> StrfHM(hour_time, tz),
                           precipitation |-> precip,
                           probability |-> prob,
                           intensity |-> Intensity(precip, lang),
                           weather_code |-> code]))
       ELSE ScanPoints(i + 1, n, data, tz, lang, nowv, acc)

\* Line 231: the number of points the loop visits.
ScanCount(hours, times) == Min(hours, Len(times))

\* get_detailed_rain_alert(hourly_data, tz_string, lang, hours) called at
\* instant nowv.  hourly_data is a record: keys is the set of keys the
\* dictionary has, the four sequences are its values (empty for a key that
\* is absent, as .get(key, []) reads it).
get_detailed_rain_alert(data, tz, lang, hours, nowv) ==
  IF data.keys = {} \/ "time" \notin data.keys
       \/ "precipitation" \notin data.keys
  THEN << >>
  ELSE ScanPoints(1, ScanCount(hours, data.time), data, tz, lang, nowv, << >>)

\* Lines 217-221: the call raises when the series passes the first test and
\* pytz.timezone(tz_string), which no try block wraps, rejects the string.
ExtractRaises(data, tz) ==
  /\ ~(data.keys = {} \/ "time" \notin data.keys
         \/ "precipitation" \notin data.keys)
  /\ ~TzKnown(tz)

\* ------------------------------------------------------------ the ledger

\* A dictionary is a function from a finite set of keys; {} is the function
\* of empty domain.
EmptyDict == << >>
DictSet(d, k, v) == [x \in (DOMAIN d) \cup {k} |-> IF x = k THEN v ELSE d[x]]
DictDel(d, ks) == [x \in (DOMAIN d) \ ks |-> d[x]]

\* datetime.fromisoformat(timestamp_str) succeeds: timestamps written by the
\* program are instants >= 0, an unparseable string is modelled as -1.
Parseable(ts) == ts >= 0

\* event_key = f"{user_id}_{city}_{rain_time_str}".
EventKey(user_id, city, rain_time_str) == <<user_id, city, rain_time_str>>

\* load_tracker(): the dictionary in the file; {} when the file is missing
\* or does not parse (a reader that meets a file truncated by a writer).
load_tracker == IF file_partial THEN EmptyDict ELSE tracker_file

\* What open(TRACKER_FILE, 'w') and json.dump can do: succeed; open raises
\* (read-only file system) and the file is untouched; open truncates the
\* file and json.dump raises (disk full), leaving a file that does not parse.
Disks == {"ok", "readonly", "full"}

\* Lines 25-32 of save_tracker run in one step: the content of the file and
\* whether it is left unparseable, when dictionary d is saved.
SavedFile(d) ==
  IF disk = "ok" THEN d ELSE IF disk = "full" THEN EmptyDict ELSE tracker_file
SavedPartial ==
  IF disk = "ok" THEN FALSE ELSE IF disk = "full" THEN TRUE ELSE file_partial

WithinCooldownNever(last_sent, cooldown, nowv) == FALSE

\* Lines 55-60: hours_since_last < cooldown_hours.
WithinCooldown(last_sent, cooldown, nowv) ==
  (nowv - last_sent) < cooldown * HourMinutes

has_alert_been_sent_ever(loaded, user_id, city, rain_time_str, cooldown, nowv) ==
  LET event_key == EventKey(user_id, city, rain_time_str)
  IN /\ event_key \in DOMAIN loaded
     /\ Parseable(loaded[event_key])

\* has_alert_been_sent_recently(...): the value returned, given the
\* dictionary load_tracker() gave.
has_alert_been_sent_recently(loaded, user_id, city, rain_time_str, cooldown, nowv) ==
  LET event_key == EventKey(user_id, city, rain_time_str)
  IN /\ event_key \in DOMAIN loaded
     /\ Parseable(loaded[event_key])
     /\ WithinCooldown(loaded[event_key], cooldown, nowv)

\* Lines 61-64: an entry whose timestamp does not parse is deleted and the
\* dictionary saved; otherwise the call leaves the file alone.
RecentCheckSaves(loaded, user_id, city, rain_time_str) ==
  LET event_key == EventKey(user_id, city, rain_time_str)
  IN event_key \in DOMAIN loaded /\ ~Parseable(loaded[event_key])

ToDeleteMinutes(d, nowv) ==
  { k \in DOMAIN d : \/ ~Parseable(d[k]) \/ (nowv - d[k]) > RetentionHours }

ToDeleteAgedOnly(d, nowv) ==
  { k \in DOMAIN d :
      Parseable(d[k]) /\ (nowv - d[k]) > RetentionHours * HourMinutes }

\* Lines 78-89: the keys mark_alert_as_sent deletes.
ToDelete(d, nowv) ==
  { k \in DOMAIN d :
      \/ ~Parseable(d[k])
      \/ (nowv - d[k]) > RetentionHours * HourMinutes }

\* Lines 70-89 of mark_alert_as_sent: the dictionary it hands to
\* save_tracker, given the dictionary load_tracker() gave.
MarkedTracker(loaded, user_id, city, rain_time_str, nowv) ==
  LET d == DictSet(loaded, EventKey(user_id, city, rain_time_str), nowv)
  IN DictDel(d, ToDelete(d, nowv))

\* --------------------------------------------------------------- the scan

Runs == {1, 2}
Users == 1..NumUsers

\* The users table: every user is enrolled with a saved city and a language.
UserCity(u) == IF u = 3 THEN "Milano" ELSE "Roma"
UserLang(u) == IF u = 2 THEN "it" ELSE "en"

\* The user ids of the rows cursor.fetchall() can return, in row order.
EnrolledUsers == [i \in 1..NumUsers |-> i]

\* A row of the table users (database.py lines 16-25); the city "" stands
\* for NULL.
UserRow(lang, city, alerts) ==
  [present |-> TRUE, language |-> lang, city |-> city, rain_alerts |-> alerts]

\* No row for the user.
NoRow == [present |-> FALSE, language |-> "en", city |-> "", rain_alerts |-> FALSE]

\* The table with every user enrolled, and the table without rows.
UsersTable == [u \in Users |-> UserRow(UserLang(u), UserCity(u), TRUE)]
NoRows == [u \in Users |-> NoRow]

\* check_rain_alerts.py lines 19-30: SELECT user_id FROM users WHERE
\* rain_alerts = 1 AND city IS NOT NULL AND city != "".
get_all_users_with_rain_alerts(table) ==
  SelectSeq(EnrolledUsers,
            LAMBDA u : /\ table[u].present /\ table[u].rain_alerts
                       /\ table[u].city # "")

\* check_rain_alerts.py lines 32-56: language and city of a user's row.
get_user_language(table, u) ==
  IF table[u].present THEN table[u].language ELSE "en"
get_user_city(table, u) == IF table[u].present THEN table[u].city ELSE ""

\* 00:00 of the day of instant t.
DayStart(t) == t - (t % DayMinutes)

\* The 'hourly' dictionary of the forecast fetched at instant nowv: one
\* point per hour for forecast_days days, from 00:00 of the current day.
HourlyAt(nowv) ==
  LET n == ForecastDays * 24
      h(i) == (i - 1) % 24
  IN [ keys |-> {"time", "precipitation", "precipitation_probability",
                 "weather_code"},
       time |-> [i \in 1..n |-> DayStart(nowv) + (i - 1) * HourMinutes],
       precipitation |-> [i \in 1..n |-> forecast[h(i)][1]],
       precipitation_probability |-> [i \in 1..n |-> forecast[h(i)][2]],
       weather_code |-> [i \in 1..n |-> forecast[h(i)][3]] ]

InWindowClosed(time_diff) == WindowLow <= time_diff /\ time_diff <= WindowHigh

\* Line 140: timedelta(minutes=15) < time_diff < timedelta(minutes=90).
InWindow(time_diff) == WindowLow < time_diff /\ time_diff < WindowHigh

\* Lines 136-141: the events of the list inside the alert window.
UpcomingRain(events, nowv) ==
  SelectSeq(events, LAMBDA e : InWindow(e.time - nowv))

PickLast(upcoming) == upcoming[Len(upcoming)]

\* Line 145: first_rain = upcoming_rain[0].
PickFirst(upcoming) == upcoming[1]

NoEvent == [time |-> -1, hhmm |-> -1, precipitation |-> 0, probability |-> 0,
            intensity |-> "", weather_code |-> 0]

NoLast == [user |-> 0, result |-> "none", hhmm |-> -1]

\* Lines 91-93: the run found no users with alerts enabled, says so at
\* info level and returns.
NoUsers == [user |-> 0, result |-> "no_users", hhmm |-> -1]

\* What the collaborators of one user's pass can do before the send:
\* answer, find no coordinates, return no forecast, or raise.
Outcomes == {"ok", "no_coords", "no_forecast", "raise"}

\* A collaborator (database, geocoder, forecast service, Telegram) may fail
\* while failures are left in the budget; failures are explored in the
\* behaviours without a restart of the service.
MayFail == faults < MaxFaults /\ pauses = 0

\* Line 89 onwards: the run loads the enrolled users and starts its loop.
\* get_all_users_with_rain_alerts answers {} when the database cannot be
\* read (lines 28-30), and the run returns at once on an empty answer.
StartRun(r) ==
  /\ pc[r] = "idle"
  /\ \E loaded \in BOOLEAN :
       /\ loaded \/ MayFail
       /\ users_with_alerts' =
            [users_with_alerts EXCEPT ![r] =
               IF loaded THEN get_all_users_with_rain_alerts(users_db)
               ELSE << >>]
       /\ pc' = [pc EXCEPT ![r] =
            IF loaded /\ get_all_users_with_rain_alerts(users_db) # << >>
            THEN "loop" ELSE "idle"]
       /\ faults' = IF loaded THEN faults ELSE faults + 1
  /\ idx' = [idx EXCEPT ![r] = 1]
  /\ alerts_sent' = [alerts_sent EXCEPT ![r] = 0]
  /\ skipped_alerts' = [skipped_alerts EXCEPT ![r] = 0]
  /\ errors' = [errors EXCEPT ![r] = 0]
  /\ first_rain' = [first_rain EXCEPT ![r] = NoEvent]
  /\ last' = [last EXCEPT ![r] =
       IF users_with_alerts'[r] = << >> THEN NoUsers ELSE NoLast]
  /\ since' = IF lastScan >= 0 THEN since ELSE now
  /\ lastScan' = now
  /\ UNCHANGED <<now, extVars, forecast, fileVars, tracker, sent, clockVars>>
  /\ UNCHANGED <<dbVars, prefs_file, threadVars, botVars, morningVars, reportVars,
                 adminVars, cacheVars>>

\* A run started by the scheduler, one at a time.
StartScheduled(r) == StartRun(r) /\ UNCHANGED <<started, response>>

\* A run started by the scheduler at an instant at which it has not yet
\* started one.
StartSpaced(r) == lastScan < now /\ StartScheduled(r)

\* A run started by a request while another run may be under way.
StartOverlapping(r) ==
  /\ started[r] < MaxStarts
  /\ started' = [started EXCEPT ![r] = started[r] + 1]
  /\ StartRun(r)
  /\ UNCHANGED response

\* The loop moves on to the next user with result res.
NextUser(r, u, res, hhmm) ==
  /\ idx' = [idx EXCEPT ![r] = idx[r] + 1]
  /\ last' = [last EXCEPT ![r] = [user |-> u, result |-> res, hhmm |-> hhmm]]
  /\ pc' = [pc EXCEPT ![r] = "loop"]

AbortOnRaise(r, u) ==
  /\ errors' = [errors EXCEPT ![r] = errors[r] + 1]
  /\ idx' = [idx EXCEPT ![r] = Len(users_with_alerts[r]) + 1]
  /\ last' = [last EXCEPT ![r] = [user |-> u, result |-> "error", hhmm |-> -1]]
  /\ pc' = [pc EXCEPT ![r] = "loop"]

\* Lines 201-203: the per-user except clause.
OnRaise(r, u) ==
  /\ errors' = [errors EXCEPT ![r] = errors[r] + 1]
  /\ NextUser(r, u, "error", -1)

SkipUserCounted(r, u, outcome) ==
  /\ errors' = [errors EXCEPT ![r] = errors[r] + 1]
  /\ NextUser(r, u, outcome, -1)
  /\ UNCHANGED <<alerts_sent, skipped_alerts, first_rain, tracker_file,
                 file_partial>>

\* Lines 116-124: no coordinates for the city, or no forecast: a warning
\* is logged and the loop continues with the next user.
SkipUser(r, u, outcome) ==
  /\ NextUser(r, u, outcome, -1)
  /\ UNCHANGED <<alerts_sent, skipped_alerts, errors, first_rain,
                 tracker_file, file_partial>>

\* Lines 106-153: one user's pass up to the cooldown check.
CheckUser(r) ==
  /\ pc[r] = "loop"
  /\ idx[r] <= Len(users_with_alerts[r])
  \* (the singleton sets bind each value once for the whole step)
  /\ \E hourly \in {HourlyAt(now)} :
     \E events \in {get_detailed_rain_alert(hourly, "Europe/Rome",
                       get_user_language(users_db, users_with_alerts[r][idx[r]]),
                       DefaultHours, now)} :
     \E upcoming_rain \in {UpcomingRain(events, now)} :
     \E loaded \in {load_tracker} :
     LET u == users_with_alerts[r][idx[r]]
         city == get_user_city(users_db, u)
     IN \E outcome \in Outcomes :
          /\ outcome = "ok" \/ MayFail
          /\ faults' = IF outcome = "ok" THEN faults ELSE faults + 1
          /\ IF outcome = "raise"
             THEN /\ OnRaise(r, u)
                  /\ UNCHANGED <<alerts_sent, skipped_alerts, first_rain,
                                 tracker_file, file_partial>>
             ELSE IF outcome # "ok"
             THEN SkipUser(r, u, outcome)
             ELSE IF events = << >>
             THEN /\ NextUser(r, u, "no_rain", -1)
                  /\ UNCHANGED <<alerts_sent, skipped_alerts, errors,
                                 first_rain, tracker_file, file_partial>>
             ELSE IF upcoming_rain = << >>
             THEN /\ NextUser(r, u, "not_imminent", -1)
                  /\ UNCHANGED <<alerts_sent, skipped_alerts, errors,
                                 first_rain, tracker_file, file_partial>>
             ELSE LET ev == PickFirst(upcoming_rain)
                  IN /\ tracker_file' =
                          IF RecentCheckSaves(loaded, u, city, ev.hhmm)
                          THEN SavedFile(DictDel(loaded, {EventKey(u, city, ev.hhmm)}))
                          ELSE tracker_file
                     /\ file_partial' =
                          IF RecentCheckSaves(loaded, u, city, ev.hhmm)
                          THEN SavedPartial ELSE file_partial
                     /\ IF has_alert_been_sent_recently(loaded, u, city,
                              ev.hhmm, cooldown_hours, now)
                        THEN /\ skipped_alerts' =
                                  [skipped_alerts EXCEPT ![r] = skipped_alerts[r] + 1]
                             /\ NextUser(r, u, "skipped", ev.hhmm)
                             /\ UNCHANGED <<alerts_sent, errors, first_rain>>
                        ELSE /\ first_rain' = [first_rain EXCEPT ![r] = ev]
                             /\ pc' = [pc EXCEPT ![r] = "send"]
                             /\ last' = [last EXCEPT ![r] =
                                  [user |-> u, result |-> "sending", hhmm |-> ev.hhmm]]
                             /\ UNCHANGED <<alerts_sent, skipped_alerts, errors, idx>>
  /\ UNCHANGED <<now, extVars, forecast, lock, disk, users_with_alerts,
                 tracker, sent, lastScan, since, budgetVars>>
  /\ UNCHANGED <<appVars, adminVars, cacheVars>>

SendRaisesRecorded(r, u) ==
  /\ pc' = [pc EXCEPT ![r] = "mark"]
  /\ UNCHANGED <<errors, idx, last, first_rain, sent>>

\* Lines 190 and 201-203: send_message_sync raised, so lines 193-199 are
\* not run and the per-user except clause counts an error.
SendRaises(r, u) ==
  /\ errors' = [errors EXCEPT ![r] = errors[r] + 1]
  /\ NextUser(r, u, "error", first_rain[r].hhmm)
  /\ first_rain' = [first_rain EXCEPT ![r] = NoEvent]
  /\ UNCHANGED sent

\* Line 190: send_message_sync delivers the alert, or raises.
SendAlert(r) ==
  /\ pc[r] = "send"
  /\ LET u == users_with_alerts[r][idx[r]]
     IN \E delivered \in BOOLEAN :
          /\ delivered \/ MayFail
          /\ faults' = IF delivered THEN faults ELSE faults + 1
          /\ IF delivered
             THEN /\ sent' = Append(sent,
                       [user |-> u, city |-> get_user_city(users_db, u),
                        hhmm |-> first_rain[r].hhmm,
                        event |-> first_rain[r].time, at |-> now])
                  /\ pc' = [pc EXCEPT ![r] = "mark"]
                  /\ UNCHANGED <<errors, idx, last, first_rain>>
             ELSE SendRaises(r, u)
  /\ UNCHANGED <<now, extVars, forecast, fileVars, users_with_alerts,
                 alerts_sent, skipped_alerts, tracker, lastScan, since, budgetVars>>
  /\ UNCHANGED <<appVars, adminVars, cacheVars>>

\* Lines 70-89 of mark_alert_as_sent: load the ledger, set the key to now,
\* drop the entries older than 24 hours.
MarkLoad(r) ==
  /\ pc[r] = "mark"
  /\ LET u == users_with_alerts[r][idx[r]]
     IN tracker' = [tracker EXCEPT ![r] =
          MarkedTracker(load_tracker, u, get_user_city(users_db, u),
                        first_rain[r].hhmm, now)]
  /\ pc' = [pc EXCEPT ![r] = "save"]
  /\ UNCHANGED <<now, extVars, forecast, fileVars, users_with_alerts, idx,
                 alerts_sent, skipped_alerts, errors, first_rain, last,
                 histVars, budgetVars>>
  /\ UNCHANGED <<appVars, adminVars, cacheVars>>

\* Lines 193-199 of the scan: mark_alert_as_sent has returned, the alert is
\* counted and the loop moves on to the next user.
AfterMark(r) ==
  /\ alerts_sent' = [alerts_sent EXCEPT ![r] = alerts_sent[r] + 1]
  /\ NextUser(r, users_with_alerts[r][idx[r]], "sent", first_rain[r].hhmm)
  /\ UNCHANGED errors

SaveFailsRaising(r) ==
  /\ OnRaise(r, users_with_alerts[r][idx[r]])
  /\ UNCHANGED alerts_sent

\* Lines 30-32 of save_tracker: the exception of a failed write is caught
\* and False returned; mark_alert_as_sent returns True all the same.
SaveFails(r) == AfterMark(r)

\* Lines 25-27 of save_tracker: take TRACKER_LOCK and open the file for
\* writing, which truncates it; on a read-only file system open raises.
SaveOpen(r) ==
  /\ pc[r] = "save"
  /\ lock = 0
  /\ IF disk = "readonly"
     THEN /\ SaveFails(r)
          /\ first_rain' = [first_rain EXCEPT ![r] = NoEvent]
          /\ tracker' = [tracker EXCEPT ![r] = EmptyDict]
          /\ UNCHANGED <<lock, file_partial>>
     ELSE /\ lock' = r
          /\ file_partial' = TRUE
          /\ pc' = [pc EXCEPT ![r] = "dump"]
          /\ UNCHANGED <<idx, alerts_sent, errors, first_rain, tracker, last>>
  /\ UNCHANGED <<now, extVars, forecast, tracker_file, disk, users_with_alerts,
                 skipped_alerts, histVars, budgetVars>>
  /\ UNCHANGED <<appVars, adminVars, cacheVars>>

\* Lines 28-32 of save_tracker and 195-199 of the scan: dump the dictionary
\* (or fail to, on a full disk), release the lock, count the alert and move
\* on to the next user.
SaveDump(r) ==
  /\ pc[r] = "dump"
  /\ lock = r
  /\ tracker_file' = SavedFile(tracker[r])
  /\ file_partial' = SavedPartial
  /\ lock' = 0
  /\ IF disk = "ok" THEN AfterMark(r) ELSE SaveFails(r)
  /\ first_rain' = [first_rain EXCEPT ![r] = NoEvent]
  /\ tracker' = [tracker EXCEPT ![r] = EmptyDict]
  /\ UNCHANGED <<now, extVars, forecast, disk, users_with_alerts,
                 skipped_alerts, histVars, budgetVars>>
  /\ UNCHANGED <<appVars, adminVars, cacheVars>>

\* The loop of run r is over: every loaded user has been processed.
LoopDone(r) == pc[r] = "loop" /\ idx[r] > Len(users_with_alerts[r])

\* The summary of a run with the counts given, and how the attempt to send
\* it ended: "not_attempted", "sent" or "failed".
Summary(outcome, a, s, e) ==
  [outcome |-> outcome, alerts_sent |-> a, skipped_alerts |-> s, errors |-> e]
NoSummary == Summary("not_attempted", 0, 0, 0)

\* Values of ADMIN_USER_ID tried: not set, a chat id, a string that is no
\* number.
AdminIds == {"", "12345", "admin"}

\* int(Config.ADMIN_USER_ID) of line 222 succeeds.
IntParses(id) == id = "12345"

ShouldNotifyAlways(admin, a, s, e) == admin # ""

\* Line 211: Config.ADMIN_USER_ID and (alerts_sent > 0 or errors > 0 or
\* skipped_alerts > 0).
ShouldNotify(admin, a, s, e) == admin # "" /\ (a > 0 \/ e > 0 \/ s > 0)

\* Lines 205-224: the counts are logged, the admin summary attempted when
\* line 211 says so, and the run returns.  int() of an id that is no number
\* and a failed send both raise inside the try block of lines 212-224,
\* whose except clause logs the failure.
FinishRun(r) ==
  /\ LoopDone(r)
  /\ pc' = [pc EXCEPT ![r] = "idle"]
  /\ IF ShouldNotify(ADMIN_USER_ID, alerts_sent[r], skipped_alerts[r], errors[r])
     THEN \E delivered \in BOOLEAN :
            /\ delivered \/ (MayFail /\ IntParses(ADMIN_USER_ID))
            /\ faults' = IF delivered THEN faults ELSE faults + 1
            /\ admin_summary' =
                 Summary(IF delivered /\ IntParses(ADMIN_USER_ID)
                         THEN "sent" ELSE "failed",
                         alerts_sent[r], skipped_alerts[r], errors[r])
     ELSE /\ admin_summary' = NoSummary
          /\ UNCHANGED faults
  /\ alerts_sent' = [alerts_sent EXCEPT ![r] = 0]
  /\ skipped_alerts' = [skipped_alerts EXCEPT ![r] = 0]
  /\ errors' = [errors EXCEPT ![r] = 0]
  /\ last' = [last EXCEPT ![r] = NoLast]
  /\ UNCHANGED <<now, extVars, forecast, fileVars, users_with_alerts, idx,
                 first_rain, tracker, sent, lastScan, since, budgetVars,
                 ADMIN_USER_ID>>
  /\ UNCHANGED <<appVars, cacheVars>>

AllIdle == \A r \in Runs : pc[r] = "idle"

\* The clock advances by a quarter of an hour between two runs.  The
\* scheduler runs a first check as soon as it starts (run_local.py line 77)
\* and then lets no more than 30 minutes pass between the starts of two
\* runs.
Tick ==
  /\ AllIdle
  /\ ticks < MaxTicks
  /\ lastScan >= 0
  /\ (now + ClockStep) - lastScan <= ScanInterval
  /\ now' = now + ClockStep
  /\ ticks' = ticks + 1
  /\ UNCHANGED <<extVars, forecast, fileVars, runVars, histVars, pauses, started>>
  /\ UNCHANGED <<appVars, adminVars, cacheVars>>

\* A long pause: the scheduler is stopped for PauseMinutes and started
\* again afterwards.
Pause ==
  /\ AllIdle
  /\ pauses < MaxPauses
  /\ faults = 0
  /\ lastScan >= 0
  /\ now' = now + PauseMinutes
  /\ pauses' = pauses + 1
  /\ lastScan' = -1
  /\ since' = -1
  /\ UNCHANGED <<extVars, forecast, fileVars, runVars, sent, faults, ticks,
                 started>>
  /\ UNCHANGED <<appVars, adminVars, cacheVars>>

\* No run has started yet.
RunsIdle ==
  /\ lock = 0
  /\ pc = [r \in Runs |-> "idle"]
  /\ users_with_alerts = [r \in Runs |-> << >>]
  /\ idx = [r \in Runs |-> 1]
  /\ alerts_sent = [r \in Runs |-> 0]
  /\ skipped_alerts = [r \in Runs |-> 0]
  /\ errors = [r \in Runs |-> 0]
  /\ first_rain = [r \in Runs |-> NoEvent]
  /\ tracker = [r \in Runs |-> EmptyDict]
  /\ last = [r \in Runs |-> NoLast]
  /\ sent = << >>
  /\ ticks = 0
  /\ started = [r \in Runs |-> 0]
  /\ lastScan = -1
  /\ since = -1
  /\ faults = 0

\* Initial values of the ledger and of the runs: no ledger file yet, a disk
\* that takes writes, a service that has never been restarted.
ScanIdle ==
  /\ tracker_file = EmptyDict
  /\ file_partial = FALSE
  /\ disk = "ok"
  /\ pauses = 0
  /\ RunsIdle

Dry == <<0, 0, 0>>
AllDry == [h \in 0..23 |-> Dry]

\* Wet points of the forecasts tried.
WetPoints == { <<30, 60, 61>> }

\* Start of the behaviours tried: 09:00 and 22:00 of day 0.
StartTimes == {9 * HourMinutes, 22 * HourMinutes}

\* Forecasts tried: dry but for one or both of the two hours that follow
\* the start by one and two hours.
Forecasts(start) ==
  LET h1 == ((start \div HourMinutes) + 1) % 24
      h2 == ((start \div HourMinutes) + 2) % 24
  IN { [h \in 0..23 |-> IF h = h1 THEN p1 ELSE IF h = h2 THEN p2 ELSE Dry] :
         p1 \in WetPoints \cup {Dry}, p2 \in WetPoints }

\* The empty dictionary {} as a series.
NoHourly == [keys |-> {}, time |-> << >>, precipitation |-> << >>,
             precipitation_probability |-> << >>, weather_code |-> << >>]

ExtractIdle ==
  /\ hourly_data = NoHourly
  /\ tz_string = "Europe/Rome"
  /\ ext_lang = "en"
  /\ ext_hours = DefaultHours
  /\ rain_events = << >>
  /\ ext_pc = "unused"
  /\ selected = NoEvent

\* The empty dictionary {} of preferences: no language, no city, no rain
\* alert setting for any user ("" stands for a missing key).
EmptyPrefs == [lang |-> [u \in Users |-> ""], cities |-> [u \in Users |-> ""],
               rain_alerts |-> [u \in Users |-> FALSE]]

Threads == {1, 2}
NoOp == [kind |-> "none", user |-> 0, city |-> "", status |-> FALSE]
NoAck == [city |-> "", lang |-> ""]
NoReply == [user |-> 0, kind |-> "none", city |-> ""]
NoText == [cmd |-> "", arg |-> ""]
NoResponse == [route |-> "none", status |-> 0, body |-> "", signature |-> "",
               passed |-> FALSE, user |-> 0, text |-> NoText, listed |-> << >>]
NoTemp == -999
NoReportIn == [found |-> FALSE, fetched |-> FALSE, lang |-> "en",
               temperature_2m |-> [h \in 0..23 |-> NoTemp]]
NoReportOut == [outcome |-> "unused", success |-> FALSE, parts |-> {}]

DbIdle == users_db = UsersTable /\ rain_alerts_log = << >>
PrefsIdle == prefs_file = EmptyPrefs
ThreadsIdle ==
  /\ t_pc = [t \in Threads |-> "idle"]
  /\ t_op = [t \in Threads |-> NoOp]
  /\ t_prefs = [t \in Threads |-> EmptyPrefs]
BotIdle == acked = [u \in Users |-> NoAck] /\ bot_reply = NoReply
WebIdle == response = NoResponse
MorningIdle ==
  /\ m_pc = "idle"
  /\ users_with_cities = << >>
  /\ m_idx = 1
  /\ successful_sends = 0
  /\ failed_sends = 0
  /\ reported = << >>
ReportIdle == report_in = NoReportIn /\ report_out = NoReportOut
AdminIdle == ADMIN_USER_ID = "" /\ admin_summary = NoSummary

\* WeatherCache.__init__ (lines 124-126): both caches empty, no call made.
NoCall == [result |-> "", fetched |-> FALSE]
CacheKeys == {"roma"}
CacheIdle ==
  /\ coordinates_cache = EmptyDict
  /\ weather_cache = EmptyDict
  /\ c_last = [k \in CacheKeys |-> NoCall]
  /\ w_pc = "idle"
  /\ attempt = 0
  /\ responses = << >>
  /\ w_last = NoCall

\* The parts of the program a behaviour does not exercise are at rest.
AppIdle ==
  /\ DbIdle
  /\ PrefsIdle
  /\ ThreadsIdle
  /\ BotIdle
  /\ WebIdle
  /\ MorningIdle
  /\ ReportIdle

Init ==
  /\ now \in StartTimes
  /\ forecast \in Forecasts(now)
  /\ ExtractIdle
  /\ ScanIdle
  /\ AppIdle
  /\ AdminIdle
  /\ CacheIdle

\* Runs of the scheduler: one at a time.
Next ==
  \/ StartScheduled(1)
  \/ CheckUser(1)
  \/ SendAlert(1)
  \/ MarkLoad(1)
  \/ SaveOpen(1)
  \/ SaveDump(1)
  \/ FinishRun(1)
  \/ Tick
  \/ Pause

\* --------------------------------------- the extractor called on its own

\* Forecast points tried: [precipitation, probability, weather code].
Points ==
  { <<0, 0, 0>>, <<0, 60, 61>>, <<1, 19, 3>>, <<1, 20, 0>>,
    <<25, 60, 0>>, <<26, 60, 61>>, <<75, 60, 0>>, <<76, 60, 0>> }

\* Series of n points, n <= MaxLen.
PointSeqs == UNION { [1..n -> Points] : n \in 0..MaxLen }

\* First timestamp of the series tried (10:00 of day 0, naive).
SeriesStart == 10 * HourMinutes

\* Instants of the call, relative to the first timestamp of the series.
NowOffsets == {-120, 30, 60, 90}

\* Sets of keys of the dictionary tried.
KeySets ==
  { {"time", "precipitation", "precipitation_probability", "weather_code"},
    {"time", "precipitation"},
    {"precipitation", "precipitation_probability", "weather_code"},
    {} }

\* The dictionary of a series of points starting at t0, restricted to keys.
MakeHourly(ps, t0, keys) ==
  [ keys |-> keys,
    time |-> IF "time" \in keys
             THEN [i \in 1..Len(ps) |-> t0 + (i - 1) * HourMinutes]
             ELSE << >>,
    precipitation |-> IF "precipitation" \in keys
                      THEN [i \in 1..Len(ps) |-> ps[i][1]] ELSE << >>,
    precipitation_probability |-> IF "precipitation_probability" \in keys
                      THEN [i \in 1..Len(ps) |-> ps[i][2]] ELSE << >>,
    weather_code |-> IF "weather_code" \in keys
                      THEN [i \in 1..Len(ps) |-> ps[i][3]] ELSE << >> ]

\* Timezone strings the callers hand in: the forecast's own timezone, and
\* the language code 'en' that debug_weather_test passes in its place.
TzStrings == KnownZones \cup {"en"}

InitExtract ==
  /\ \E ps \in PointSeqs, keys \in KeySets :
        hourly_data = MakeHourly(ps, SeriesStart, keys)
  /\ tz_string \in TzStrings
  /\ ext_lang \in Langs
  /\ ext_hours \in 1..MaxHours
  /\ \E d \in NowOffsets : now = Localize(SeriesStart, tz_string) + d
  /\ rain_events = << >>
  /\ ext_pc = "input"
  /\ selected = NoEvent
  /\ forecast = AllDry
  /\ ScanIdle
  /\ AppIdle
  /\ AdminIdle
  /\ CacheIdle

\* One call of get_detailed_rain_alert on the inputs drawn.
Extract ==
  /\ ext_pc = "input"
  /\ IF ExtractRaises(hourly_data, tz_string)
     THEN /\ ext_pc' = "raised"
          /\ UNCHANGED rain_events
     ELSE /\ rain_events' =
               get_detailed_rain_alert(hourly_data, tz_string, ext_lang,
                                       ext_hours, now)
          /\ ext_pc' = "done"
  /\ UNCHANGED <<now, hourly_data, tz_string, ext_lang, ext_hours, selected,
                 forecast, fileVars, runVars, histVars, budgetVars>>
  /\ UNCHANGED <<appVars, adminVars, cacheVars>>

\* Lines 136-145 of the scan on their own: the events inside the alert
\* window, and the first of them.
Select ==
  /\ ext_pc = "done"
  /\ LET upcoming_rain == UpcomingRain(rain_events, now)
     IN selected' = IF upcoming_rain = << >> THEN NoEvent
                    ELSE PickFirst(upcoming_rain)
  /\ ext_pc' = "selected"
  /\ UNCHANGED <<now, hourly_data, tz_string, ext_lang, ext_hours, rain_events,
                 forecast, fileVars, runVars, histVars, budgetVars>>
  /\ UNCHANGED <<appVars, adminVars, cacheVars>>

\* Lead times tried for the first point of an hourly series: the second
\* point is then 80, 140, 75 and 150 minutes ahead.
SelectLeads == {20, 80, 15, 90}

\* A series with points 20 and 40 minutes after nowv: 0.2 mm at 30 %, then
\* 3.0 mm at 60 %, no weather code.
ScenarioHourly(nowv) ==
  [ keys |-> {"time", "precipitation", "precipitation_probability"},
    time |-> <<nowv + 20, nowv + 40>>,
    precipitation |-> <<2, 30>>,
    precipitation_probability |-> <<30, 60>>,
    weather_code |-> << >> ]

\* The scan's call of the extractor (forecast timezone, 24 hours) followed
\* by the window pick, on a series drawn.
InitSelect ==
  /\ \E d \in SelectLeads : now = SeriesStart - d
  /\ \/ \E ps \in PointSeqs : hourly_data = MakeHourly(ps, SeriesStart,
            {"time", "precipitation", "precipitation_probability",
             "weather_code"})
     \/ hourly_data = ScenarioHourly(now)
  /\ tz_string = "Europe/Rome"
  /\ ext_lang \in Langs
  /\ ext_hours = DefaultHours
  /\ rain_events = << >>
  /\ ext_pc = "input"
  /\ selected = NoEvent
  /\ forecast = AllDry
  /\ ScanIdle
  /\ AppIdle
  /\ AdminIdle
  /\ CacheIdle

scanVars == <<now, extVars, forecast, fileVars, runVars, histVars, budgetVars,
              adminVars, cacheVars>>
vars == <<scanVars, appVars>>

NextExtract == Extract

SpecExtract == InitExtract /\ [][NextExtract]_vars

NextSelect == Extract \/ Select

SpecSelect == InitSelect /\ [][NextSelect]_vars

Spec == Init /\ [][Next]_vars

\* Two overlapping runs (two /trigger-rain-check requests served by two
\* threads), started 45 minutes after 09:00.
InitPar ==
  /\ now = 9 * HourMinutes + 3 * ClockStep
  /\ forecast \in Forecasts(9 * HourMinutes)
  /\ ExtractIdle
  /\ ScanIdle
  /\ AppIdle
  /\ AdminIdle
  /\ CacheIdle

NextPar ==
  \E r \in Runs :
    \/ StartOverlapping(r)
    \/ CheckUser(r)
    \/ SendAlert(r)
    \/ MarkLoad(r)
    \/ SaveOpen(r)
    \/ SaveDump(r)
    \/ FinishRun(r)

SpecPar == InitPar /\ [][NextPar]_vars

\* ------------------------------- the scan over a ledger left by the past

\* Start of these behaviours: 09:00 of day 2, so that the ledger can hold
\* timestamps of the two days before.
LedgerStart == 2 * DayMinutes + 9 * HourMinutes

\* Clock time of the rain event every forecast tried holds: two hours after
\* the start.
LedgerRainTime == StrfHM(LedgerStart + 2 * HourMinutes, "Europe/Rome")

\* Values an entry of the file can hold: for the key of user 1, five hours
\* before the start or a string that is no timestamp; for the key of user
\* 2, no timestamp or 25 hours before the start; for the key of a user no
\* longer enrolled, 25 or 23 hours before the start.
OldStamps ==
  << {LedgerStart - 5 * HourMinutes, -1},
     {-1, LedgerStart - 25 * HourMinutes},
     {LedgerStart - 25 * HourMinutes, LedgerStart - 23 * HourMinutes} >>

\* The key of the i-th of those entries (user 0 is the one no longer
\* enrolled).
OldKey(i) == EventKey(i % 3, "Roma", LedgerRainTime)

\* The ledgers tried: any of the three entries present, with any of its
\* values.
OldLedgers ==
  { [k \in { OldKey(i) : i \in present } |->
        f[CHOOSE i \in 1..3 : OldKey(i) = k]] :
    present \in SUBSET (1..3),
    f \in { g \in [1..3 -> UNION { OldStamps[i] : i \in 1..3 }] :
              \A i \in 1..3 : g[i] \in OldStamps[i] } }

\* The service starts over a ledger file left by earlier periods of
\* service (or found missing or unparseable) and on a disk that may refuse
\* writes; its restarts are behind it.
InitLedger ==
  /\ now = LedgerStart
  /\ forecast \in Forecasts(now)
  /\ ExtractIdle
  /\ \/ tracker_file \in OldLedgers /\ file_partial = FALSE
     \/ tracker_file = EmptyDict /\ file_partial = TRUE
  /\ disk \in Disks
  /\ pauses = MaxPauses
  /\ RunsIdle
  /\ AppIdle
  /\ AdminIdle
  /\ CacheIdle

NextLedger ==
  \/ StartSpaced(1)
  \/ CheckUser(1)
  \/ SendAlert(1)
  \/ MarkLoad(1)
  \/ SaveOpen(1)
  \/ SaveDump(1)
  \/ FinishRun(1)
  \/ Tick

SpecLedger == InitLedger /\ [][NextLedger]_vars

\* ----------------------------- the scan with two events inside the window
\* The forecast series is hourly, so two events are inside the alert
\* window of 15 to 90 minutes at once only when the scan starts between
\* :31 and :44 of an hour.

\* Start of these behaviours: 09:05 of day 0; the scans that follow start
\* at 09:20, 09:35 (rain at 10:00 and at 11:00 both inside the window), ...
OffGridStart == 9 * HourMinutes + 5

InitOffGrid ==
  /\ now = OffGridStart
  /\ forecast \in Forecasts(now)
  /\ ExtractIdle
  /\ ScanIdle
  /\ AppIdle
  /\ AdminIdle
  /\ CacheIdle

SpecOffGrid == InitOffGrid /\ [][NextLedger]_vars

\* --------------------------------------- the scan with an admin configured

\* The service at 09:00 with rain ahead and ADMIN_USER_ID not set, set to a
\* chat id, or set to a string that is no number.
InitAdmin ==
  /\ now = 9 * HourMinutes
  /\ forecast \in Forecasts(now)
  /\ ExtractIdle
  /\ ScanIdle
  /\ AppIdle
  /\ ADMIN_USER_ID \in AdminIds
  /\ admin_summary = NoSummary
  /\ CacheIdle

SpecAdmin == InitAdmin /\ [][NextLedger]_vars

\* ------------------------------- the lookup cache (WeatherCache, lines 118-202)

\* Lifetimes of a cached forecast (300 seconds) and of cached coordinates
\* (3600 seconds), in minutes.
WEATHER_CACHE_DURATION == 5
COORDINATES_CACHE_DURATION == 60
\* Line 187: the number of HTTP attempts of _fetch_weather.
max_retries == 2

\* City names handed to get_coordinates.
CityNames == {"Roma", " roma"}

\* Line 130: cache_key = city_name.lower().strip().
CacheKey(city_name) ==
  IF city_name \in {"Roma", " roma"} THEN "roma" ELSE "milano"

\* Line 146: the only location forecasts are asked for, as
\* f"{lat:.2f},{lon:.2f}".
WeatherKey == "41.89,12.48"

\* What the geocoder can do: answer with results, answer without results,
\* or fail (no connection, timeout, no JSON).
GeoAnswers == {"results", "no_results", "raise"}

\* The triple (lat, lon, region) of a located city, and (None, None, None).
Located(city_name) ==
  IF CacheKey(city_name) = "roma" THEN "41.89,12.48,Lazio"
  ELSE "45.46,9.19,Lombardia"
NotLocated == "None,None,None"

\* Lines 160-172: _fetch_coordinates catches what goes wrong and returns
\* (None, None, None).
fetch_coordinates(city_name, answer) ==
  IF answer = "results" THEN Located(city_name) ELSE NotLocated

\* Lines 132-135 and 148-151: the key is cached and its entry younger than
\* duration.
Cached(cache, cache_key, duration, nowv) ==
  /\ cache_key \in DOMAIN cache
  /\ nowv - cache[cache_key][2] < duration

StoreAnyCoordinates(data) == TRUE

\* Line 139: if lat is not None.
StoreCoordinates(data) == data # NotLocated

\* Line 155: if weather_data (None and {} are false).
StoreWeather(data) == data \notin {"None", "{}"}

\* The variables the cache leaves alone.
restVars == <<extVars, forecast, fileVars, runVars, histVars, pauses, started,
              adminVars, appVars>>

\* Lines 128-142: get_coordinates(city_name).
get_coordinates(city_name) ==
  /\ w_pc = "idle"
  /\ LET cache_key == CacheKey(city_name)
     IN IF Cached(coordinates_cache, cache_key, COORDINATES_CACHE_DURATION, now)
        THEN /\ c_last' = [c_last EXCEPT ![cache_key] =
                  [result |-> coordinates_cache[cache_key][1], fetched |-> FALSE]]
             /\ UNCHANGED coordinates_cache
        ELSE \E answer \in GeoAnswers :
               LET data == fetch_coordinates(city_name, answer)
               IN /\ coordinates_cache' =
                       IF StoreCoordinates(data)
                       THEN DictSet(coordinates_cache, cache_key, <<data, now>>)
                       ELSE coordinates_cache
                  /\ c_last' = [c_last EXCEPT ![cache_key] =
                       [result |-> data, fetched |-> TRUE]]
  /\ UNCHANGED <<restVars, now, ticks, weather_cache, w_pc, attempt, responses,
                 w_last>>

\* Lines 144-153: get_weather(lat, lon) returns the cached forecast or
\* enters _fetch_weather.
get_weather ==
  /\ w_pc = "idle"
  /\ IF Cached(weather_cache, WeatherKey, WEATHER_CACHE_DURATION, now)
     THEN /\ w_last' = [result |-> weather_cache[WeatherKey][1], fetched |-> FALSE]
          /\ UNCHANGED <<w_pc, attempt, responses>>
     ELSE /\ w_pc' = "fetch"
          /\ attempt' = 0
          /\ responses' = << >>
          /\ UNCHANGED w_last
  /\ UNCHANGED <<restVars, now, ticks, coordinates_cache, weather_cache, c_last>>

\* What an HTTP attempt can meet: status 429; an exception of requests.get
\* (timeout, no connection); an answer whose body is no JSON, so that
\* response.json() raises; a forecast; a JSON body without a forecast (the
\* error document of the service); an empty JSON object.
HttpAnswers == {"429", "raise", "not_json", "forecast", "error_body", "{}"}

\* The attempt ends in the except clause of lines 197-200; the answers met
\* by the attempts that failed are kept in responses until the call returns.
Raises(resp) == resp \in {"raise", "not_json"}

\* Lines 154-158: get_weather stores a forecast that is not empty and
\* returns what _fetch_weather gave.
ReturnWeather(data) ==
  /\ weather_cache' =
       IF StoreWeather(data) THEN DictSet(weather_cache, WeatherKey, <<data, now>>)
       ELSE weather_cache
  /\ w_last' = [result |-> data, fetched |-> TRUE]
  /\ w_pc' = "idle"
  /\ attempt' = 0
  /\ responses' = << >>

FetchOverLate(n) == n >= max_retries + 1

\* Line 188: for attempt in range(max_retries) is over.
FetchOver(n) == n >= max_retries

\* Lines 188-200: one pass of the loop of _fetch_weather: a 429 or an
\* exception moves on to the next attempt, any other answer is returned.
fetch_weather_attempt ==
  /\ w_pc = "fetch"
  /\ ~FetchOver(attempt)
  /\ \E resp \in HttpAnswers :
       IF resp = "429" \/ Raises(resp)
       THEN /\ attempt' = attempt + 1
            /\ responses' = Append(responses, resp)
            /\ UNCHANGED <<w_pc, w_last, weather_cache>>
       ELSE ReturnWeather(resp)
  /\ UNCHANGED <<restVars, now, ticks, coordinates_cache, c_last>>

\* Line 202: the loop is over, _fetch_weather returns None.
fetch_weather_exhausted ==
  /\ w_pc = "fetch"
  /\ FetchOver(attempt)
  /\ ReturnWeather("None")
  /\ UNCHANGED <<restVars, now, ticks, coordinates_cache, c_last>>

\* Minutes that pass between two calls: less than the lifetime of a
\* forecast, that lifetime, and the lifetime of coordinates.
WaitMinutes == {4, WEATHER_CACHE_DURATION, COORDINATES_CACHE_DURATION}

CacheWait(d) ==
  /\ w_pc = "idle"
  /\ ticks < MaxWaits
  /\ now' = now + d
  /\ ticks' = ticks + 1
  /\ UNCHANGED <<restVars, cacheVars>>

InitCache ==
  /\ now = 9 * HourMinutes
  /\ forecast = AllDry
  /\ ExtractIdle
  /\ ScanIdle
  /\ AppIdle
  /\ AdminIdle
  /\ CacheIdle

NextCache ==
  \/ \E city_name \in CityNames : get_coordinates(city_name)
  \/ get_weather
  \/ fetch_weather_attempt
  \/ fetch_weather_exhausted
  \/ \E d \in WaitMinutes : CacheWait(d)

SpecCache == InitCache /\ [][NextCache]_vars

\* requests.get has a timeout of 8 seconds and the sleeps of the loop are
\* finite: a call inside _fetch_weather takes its next step.
SpecFetch ==
  /\ SpecCache
  /\ WF_vars(fetch_weather_attempt)
  /\ WF_vars(fetch_weather_exhausted)

\* -------------------------------------- the preferences file (user_prefs.py)

Cities == {"Roma", "Milano"}

\* os.path.dirname(USER_PREFS_FILE) for USER_PREFS_FILE =
\* 'user_preferences.json': the empty string.
PrefsDirname == ""

\* os.makedirs(name, exist_ok=True) raises FileNotFoundError for the empty
\* name.
MakedirsRaises(name) == name = ""

\* load_user_prefs(): the dictionary in the file, {} when it is missing.
load_user_prefs(file) == file

\* save_user_prefs(prefs), lines 31-53, under PREFS_LOCK: whether it raises
\* before the temporary file is written, and the file it leaves.
SaveRaises == MakedirsRaises(PrefsDirname)
save_user_prefs(file, prefs) == IF SaveRaises THEN file ELSE prefs

\* A preferences file in which the users of us have a language and a city,
\* and the odd ones of them rain alerts switched on.
PrefsWith(us) ==
  [lang |-> [u \in Users |-> IF u \in us THEN UserLang(u) ELSE ""],
   cities |-> [u \in Users |-> IF u \in us THEN UserCity(u) ELSE ""],
   rain_alerts |-> [u \in Users |-> u \in us /\ u % 2 = 1]]

\* Files the program may find when it starts: none, or one written earlier.
PrefsFiles == { PrefsWith(us) : us \in SUBSET {1, 2} }

\* The calls a thread can make: save_user_city and set_rain_alerts_status.
Ops ==
  { [kind |-> "save_user_city", user |-> u, city |-> c, status |-> FALSE] :
      u \in Users, c \in Cities }
  \cup
  { [kind |-> "set_rain_alerts_status", user |-> u, city |-> "", status |-> b] :
      u \in Users, b \in BOOLEAN }

\* Lines 68-73 and 83-88: the dictionary after the call's assignment.
Modified(prefs, op) ==
  IF op.kind = "save_user_city"
  THEN [prefs EXCEPT !.cities[op.user] = op.city]
  ELSE [prefs EXCEPT !.rain_alerts[op.user] = op.status]

\* A thread enters save_user_city or set_rain_alerts_status.
PrefsCall(t) ==
  /\ t_pc[t] = "idle"
  /\ \E op \in Ops : t_op' = [t_op EXCEPT ![t] = op]
  /\ t_pc' = [t_pc EXCEPT ![t] = "load"]
  /\ UNCHANGED <<scanVars, dbVars, prefs_file, t_prefs, botVars, response,
                 morningVars, reportVars>>

\* Lines 68-73 (83-88): prefs = load_user_prefs(), which holds PREFS_LOCK
\* for the read only, and the assignment to the thread's own dictionary.
PrefsLoad(t) ==
  /\ t_pc[t] = "load"
  /\ t_prefs' = [t_prefs EXCEPT ![t] = Modified(load_user_prefs(prefs_file), t_op[t])]
  /\ t_pc' = [t_pc EXCEPT ![t] = "save"]
  /\ UNCHANGED <<scanVars, dbVars, prefs_file, t_op, botVars, response,
                 morningVars, reportVars>>

\* Line 74 (89): save_user_prefs(prefs) under PREFS_LOCK; its exception
\* leaves the call through the raise of line 54.
PrefsSave(t) ==
  /\ t_pc[t] = "save"
  /\ prefs_file' = save_user_prefs(prefs_file, t_prefs[t])
  /\ t_pc' = [t_pc EXCEPT ![t] = IF SaveRaises THEN "raised" ELSE "returned"]
  /\ UNCHANGED <<scanVars, dbVars, t_op, t_prefs, botVars, response,
                 morningVars, reportVars>>

InitPrefs ==
  /\ now = 9 * HourMinutes
  /\ forecast = AllDry
  /\ ExtractIdle
  /\ ScanIdle
  /\ DbIdle
  /\ prefs_file \in PrefsFiles
  /\ ThreadsIdle
  /\ BotIdle
  /\ WebIdle
  /\ MorningIdle
  /\ ReportIdle
  /\ AdminIdle
  /\ CacheIdle

NextPrefs == \E t \in Threads : PrefsCall(t) \/ PrefsLoad(t) \/ PrefsSave(t)

SpecPrefs == InitPrefs /\ [][NextPrefs]_vars

\* ------------------------------------------- the polling bot (bot_core.py)

\* The chats that talk to the bot.
BotUsers == {1, 2}

\* bot_core.py lines 36-54: save_user_prefs has the makedirs call of
\* user_prefs.py, and its except clause logs the error and returns.
bot_save_user_prefs(file, prefs) == save_user_prefs(file, prefs)

\* bot_core.py lines 56-59: prefs.get(str(user_id), 'en').
bot_get_user_language(file, u) ==
  IF load_user_prefs(file).lang[u] = "" THEN "en" ELSE load_user_prefs(file).lang[u]

\* The handlers leave everything but the file and the bot's replies alone.
BotFrame ==
  UNCHANGED <<scanVars, dbVars, threadVars, response, morningVars, reportVars>>

\* Lines 136-186: /savecity with the city given ("" when no argument was
\* given: the usage text is sent and nothing else is done).
save_city_command(u, city) ==
  /\ IF city = ""
     THEN /\ bot_reply' = [user |-> u, kind |-> "usage", city |-> ""]
          /\ UNCHANGED <<prefs_file, acked>>
     ELSE LET prefs == [load_user_prefs(prefs_file) EXCEPT !.cities[u] = city]
          IN /\ prefs_file' = bot_save_user_prefs(prefs_file, prefs)
             /\ bot_reply' = [user |-> u, kind |-> "city_saved", city |-> city]
             /\ acked' = [acked EXCEPT ![u].city = city]
  /\ BotFrame

\* Lines 116-134: the language chosen on the keyboard.
handle_language_choice(u, lang) ==
  /\ LET prefs == [load_user_prefs(prefs_file) EXCEPT !.lang[u] = lang]
     IN prefs_file' = bot_save_user_prefs(prefs_file, prefs)
  /\ bot_reply' = [user |-> u, kind |-> "language_set", city |-> ""]
  /\ acked' = [acked EXCEPT ![u].lang = lang]
  /\ BotFrame

\* Lines 188-217: /myweather answers with the forecast of the saved city,
\* or says that no city is saved.
my_weather_command(u) ==
  /\ LET saved_city == load_user_prefs(prefs_file).cities[u]
     IN bot_reply' = IF saved_city = ""
                     THEN [user |-> u, kind |-> "no_city", city |-> ""]
                     ELSE [user |-> u, kind |-> "weather", city |-> saved_city]
  /\ UNCHANGED <<prefs_file, acked>>
  /\ BotFrame

\* Lines 302-350: /rainalerts toggles the setting of a user with a saved
\* city and confirms 'Rain alerts ACTIVATED' or 'DEACTIVATED'.
rain_alerts_command(u) ==
  /\ LET prefs == load_user_prefs(prefs_file)
         saved_city == prefs.cities[u]
         new_setting == ~prefs.rain_alerts[u]
     IN IF saved_city = ""
        THEN /\ bot_reply' = [user |-> u, kind |-> "need_city", city |-> ""]
             /\ UNCHANGED prefs_file
        ELSE /\ prefs_file' = bot_save_user_prefs(prefs_file,
                    [prefs EXCEPT !.rain_alerts[u] = new_setting])
             /\ bot_reply' =
                  [user |-> u,
                   kind |-> IF new_setting THEN "activated" ELSE "deactivated",
                   city |-> saved_city]
  /\ UNCHANGED acked
  /\ BotFrame

\* run_local.py: the bot polls while the scheduler thread runs the rain
\* check; bot_core never opens users.db, so its table users has no row.
InitBot ==
  /\ now = 9 * HourMinutes
  /\ forecast \in Forecasts(now)
  /\ ExtractIdle
  /\ ScanIdle
  /\ users_db = NoRows
  /\ rain_alerts_log = << >>
  /\ prefs_file \in PrefsFiles
  /\ ThreadsIdle
  /\ BotIdle
  /\ WebIdle
  /\ MorningIdle
  /\ ReportIdle
  /\ AdminIdle
  /\ CacheIdle

NextBot ==
  \/ \E u \in BotUsers, city \in Cities \cup {""} : save_city_command(u, city)
  \/ \E u \in BotUsers, lang \in Langs : handle_language_choice(u, lang)
  \/ \E u \in BotUsers : my_weather_command(u)
  \/ \E u \in BotUsers : rain_alerts_command(u)
  \/ StartScheduled(1)

SpecBot == InitBot /\ [][NextBot]_vars

\* ------------------------- the weather report (get_complete_weather_report)

\* weather_service.py lines 386-427: the entries of the first 24 points of
\* the series (the hours of the current day) that lie after the instant
\* nowv, each with its hour and its temperature (NoTemp for None).
get_24h_hourly_forecast(temps, nowv) ==
  LET h0 == (nowv % DayMinutes) \div HourMinutes
  IN [i \in 1..(23 - h0) |-> [hour |-> h0 + i, temperature |-> temps[h0 + i]]]

\* Lines 449-452: the entries of a part of the day.
morning_hours(hf) == SelectSeq(hf, LAMBDA h : 6 <= h.hour /\ h.hour < 12)
afternoon_hours(hf) == SelectSeq(hf, LAMBDA h : 12 <= h.hour /\ h.hour < 18)
evening_hours(hf) == SelectSeq(hf, LAMBDA h : 18 <= h.hour /\ h.hour < 22)
night_hours(hf) == SelectSeq(hf, LAMBDA h : h.hour < 6 \/ h.hour >= 22)

\* Lines 456, 468, 480, 492: the entries of a part that have a temperature.
WithTemp(part) == SelectSeq(part, LAMBDA h : h.temperature # NoTemp)

\* Line 456 collects the temperatures of the morning entries, so the sum of
\* line 460 is a sum of numbers.  Lines 468, 480 and 492 collect the
\* entries themselves, so the sums of lines 472, 484 and 496 add a
\* dictionary to 0 and raise TypeError as soon as the list is not empty.
SummaryRaises(hf) ==
  \/ WithTemp(afternoon_hours(hf)) # << >>
  \/ WithTemp(evening_hours(hf)) # << >>
  \/ WithTemp(night_hours(hf)) # << >>

\* Lines 440-502: the parts of the day the summary has a line for.
get_24h_summary(hf) ==
  IF WithTemp(morning_hours(hf)) # << >> THEN {"morning"} ELSE {}

\* Lines 738-751, with create_weather_message (lines 504-736) reduced to
\* its 24-hour section, lines 648-667.
get_complete_weather_report(in, nowv) ==
  IF ~in.found
  THEN [outcome |-> "returned", success |-> FALSE, parts |-> {}]
  ELSE IF ~in.fetched
  THEN [outcome |-> "returned", success |-> FALSE, parts |-> {}]
  ELSE LET hourly_forecast == get_24h_hourly_forecast(in.temperature_2m, nowv)
       IN IF hourly_forecast # << >> /\ SummaryRaises(hourly_forecast)
          THEN [outcome |-> "raised", success |-> FALSE, parts |-> {}]
          ELSE [outcome |-> "returned", success |-> TRUE,
                parts |-> get_24h_summary(hourly_forecast)]

\* Temperatures of the 24 hours of the day tried: a value at every hour,
\* None at every hour, a value in the morning hours only.
TempSeries ==
  { [h \in 0..23 |-> 18], [h \in 0..23 |-> NoTemp],
    [h \in 0..23 |-> IF 6 <= h /\ h < 12 THEN 18 ELSE NoTemp] }

\* A call at any full hour of the day: the city resolves or not, the
\* forecast is returned or not.
InitReport ==
  /\ now \in { h * HourMinutes : h \in 0..23 }
  /\ forecast = AllDry
  /\ ExtractIdle
  /\ ScanIdle
  /\ DbIdle
  /\ PrefsIdle
  /\ ThreadsIdle
  /\ BotIdle
  /\ WebIdle
  /\ MorningIdle
  /\ report_in \in [found : BOOLEAN, fetched : BOOLEAN, lang : Langs,
                    temperature_2m : TempSeries]
  /\ report_out = NoReportOut
  /\ AdminIdle
  /\ CacheIdle

\* One call of get_complete_weather_report.
CompleteReport ==
  /\ report_out.outcome = "unused"
  /\ report_out' = get_complete_weather_report(report_in, now)
  /\ UNCHANGED <<scanVars, dbVars, prefs_file, threadVars, botVars, response,
                 morningVars, report_in>>

NextReport == CompleteReport

SpecReport == InitReport /\ [][NextReport]_vars

\* ------------------------------- the morning reports (send_morning_report.py)

\* user_prefs.py lines 91-94: the users of the 'cities' dictionary of the
\* preferences file, in the order of the file.
get_all_users_with_cities(file) ==
  SelectSeq(EnrolledUsers, LAMBDA u : load_user_prefs(file).cities[u] # "")

\* What get_complete_weather_report can be given by its collaborators.
ReportInputs ==
  [found : BOOLEAN, fetched : BOOLEAN, lang : Langs, temperature_2m : TempSeries]

\* The for loop of send_morning_reports moves on to the next user.
NextReportUser ==
  /\ m_idx' = m_idx + 1
  /\ reported' = Append(reported, users_with_cities[m_idx])
  /\ UNCHANGED <<m_pc, users_with_cities>>

ReportFailedUncounted == NextReportUser /\ UNCHANGED <<successful_sends, failed_sends>>

\* Lines 68-70 and 88-90: no report for the city, or an exception in the
\* user's pass: failed_sends += 1, and the loop goes on.
ReportFailed ==
  /\ failed_sends' = failed_sends + 1
  /\ NextReportUser
  /\ UNCHANGED successful_sends

\* Lines 17-36: the users with a saved city are loaded; with none of them
\* the function returns, else the counters are zeroed and the loop starts.
LoadMorning ==
  /\ m_pc \in {"idle", "done"}
  /\ users_with_cities' = get_all_users_with_cities(prefs_file)
  /\ m_pc' = IF get_all_users_with_cities(prefs_file) = << >> THEN "idle" ELSE "loop"
  /\ m_idx' = 1
  /\ successful_sends' = 0
  /\ failed_sends' = 0
  /\ reported' = << >>
  /\ report_in' = NoReportIn
  /\ report_out' = NoReportOut
  /\ UNCHANGED <<scanVars, dbVars, prefs_file, threadVars, botVars>>

\* A run started by the scheduler (run_local.py line 65).
StartMorning == LoadMorning /\ UNCHANGED response

\* Lines 38-90: one user's pass: the report is fetched; when it succeeds
\* the message is sent (the call may raise), else failed_sends is counted
\* and an error message attempted inside its own try block.
ReportUser ==
  /\ m_pc = "loop"
  /\ m_idx <= Len(users_with_cities)
  /\ \E in \in ReportInputs, delivered \in BOOLEAN :
       /\ report_in' = in
       /\ report_out' = get_complete_weather_report(in, now)
       /\ IF report_out'.outcome = "returned" /\ report_out'.success /\ delivered
          THEN /\ successful_sends' = successful_sends + 1
               /\ NextReportUser
               /\ UNCHANGED failed_sends
          ELSE ReportFailed
  /\ UNCHANGED <<scanVars, dbVars, prefs_file, threadVars, botVars, response>>

\* Lines 92-116: the summary is logged and the function returns.
FinishMorning ==
  /\ m_pc = "loop"
  /\ m_idx > Len(users_with_cities)
  /\ m_pc' = "done"
  /\ UNCHANGED <<scanVars, dbVars, prefs_file, threadVars, botVars, response,
                 users_with_cities, m_idx, successful_sends, failed_sends,
                 reported, reportVars>>

\* Runs of send_morning_reports at 08:00 over a preferences file that
\* holds a city for any set of users.
InitMorning ==
  /\ now = 8 * HourMinutes
  /\ forecast = AllDry
  /\ ExtractIdle
  /\ ScanIdle
  /\ DbIdle
  /\ prefs_file \in { PrefsWith(us) : us \in SUBSET Users }
  /\ ThreadsIdle
  /\ BotIdle
  /\ WebIdle
  /\ MorningIdle
  /\ ReportIdle
  /\ AdminIdle
  /\ CacheIdle

NextMorning == StartMorning \/ ReportUser \/ FinishMorning

SpecMorning == InitMorning /\ [][NextMorning]_vars

\* ------------------------------------ the web server (render_webhook.py)

\* The chats that send messages to the webhook, and the cities they save.
WebUsers == {1, 2}
WebCities == {"Roma"}

\* Lines 107-163: set_user_language, set_user_city and set_rain_alerts
\* update the row of an existing user and create the row of a new one.
set_user_language(table, u, lang) ==
  IF table[u].present THEN [table EXCEPT ![u].language = lang]
  ELSE [table EXCEPT ![u] = UserRow(lang, "", FALSE)]
set_user_city(table, u, city) ==
  IF table[u].present THEN [table EXCEPT ![u].city = city]
  ELSE [table EXCEPT ![u] = UserRow("en", city, FALSE)]
set_rain_alerts(table, u, enabled) ==
  IF table[u].present THEN [table EXCEPT ![u].rain_alerts = enabled]
  ELSE [table EXCEPT ![u] = UserRow("en", "", enabled)]

\* Lines 289-291: get_rain_alerts_status.
get_rain_alerts_status(table, u) == table[u].present /\ table[u].rain_alerts

\* Lines 178-196: the rows of rain_alerts_log of the user whose sent_at is
\* less than hours hours old.
get_recent_rain_alerts(log, u, hours, nowv) ==
  SelectSeq(log, LAMBDA a : a.user = u /\ a.sent_at > nowv - hours * HourMinutes)

\* Lines 259-260 and 268: SELECT COUNT(*) FROM rain_alerts_log.
total_rain_alerts_sent(log) == Len(log)

\* Line 632: the signature the cron endpoints expect.
expected_signature ==
  "79bed7eab2dc420069685af5cc24908a399ff47ed45c23ec1b9688311dcc81e1"

\* Values of the X-Cron-Signature header: absent (""), the expected one,
\* another one.
Signatures == {"", expected_signature, "other"}

VerifyNonEmpty(received_signature) == received_signature # ""

\* Lines 625-635.
verify_cron_signature(received_signature) ==
  /\ received_signature # ""
  /\ received_signature = expected_signature

\* Texts of the messages tried.
WebTexts ==
  { [cmd |-> c, arg |-> ""] :
      c \in {"/start", "/language", "/help", "/myweather", "/myalerts",
             "/rainalerts", "/unknown"} }
  \cup { [cmd |-> "choice", arg |-> l] : l \in Langs }
  \cup { [cmd |-> c, arg |-> city] :
           c \in {"/save", "/weather", "city"}, city \in WebCities }

\* The answer of the server to a request.
Answer(route, status, body, sig, passed, u, text, listed) ==
  [route |-> route, status |-> status, body |-> body, signature |-> sig,
   passed |-> passed, user |-> u, text |-> text, listed |-> listed]

\* The web server serves one request at a time: a message is handled when
\* no job started by a cron request is under way.
WebFree == AllIdle /\ m_pc # "loop"

\* Lines 324-604: a POST to /webhook with a message of chat chat_id.  A
\* wrong secret token is answered 403.  Otherwise the command is handled
\* and ('OK', 200) returned, also from the except clause of lines 602-604;
\* the bare return of line 553 makes the view return None, which the
\* framework answers with status 500.
webhook(chat_id, text, token_ok) ==
  /\ WebFree
  /\ LET saved_city == get_user_city(users_db, chat_id)
         alerts_enabled == get_rain_alerts_status(users_db, chat_id)
         ok(listed) == Answer("webhook", 200, "OK", "", TRUE, chat_id, text, listed)
     IN IF ~token_ok
        THEN /\ response' = Answer("webhook", 403, "Unauthorized", "", FALSE,
                                   chat_id, text, << >>)
             /\ UNCHANGED users_db
        ELSE IF text.cmd = "choice"
        THEN /\ users_db' = set_user_language(users_db, chat_id, text.arg)
             /\ response' = ok(<< >>)
        ELSE IF text.cmd = "/save"
        THEN /\ users_db' = set_user_city(users_db, chat_id, text.arg)
             /\ response' = ok(<< >>)
        ELSE IF text.cmd = "/rainalerts"
        THEN IF saved_city = ""
             THEN /\ response' = Answer("webhook", 500, "Internal Server Error",
                                        "", TRUE, chat_id, text, << >>)
                  /\ UNCHANGED users_db
             ELSE /\ users_db' = set_rain_alerts(users_db, chat_id, ~alerts_enabled)
                  /\ response' = ok(<< >>)
        ELSE IF text.cmd = "/myalerts"
        THEN /\ response' =
                  ok(IF alerts_enabled /\ saved_city # ""
                     THEN get_recent_rain_alerts(rain_alerts_log, chat_id, 24, now)
                     ELSE << >>)
             /\ UNCHANGED users_db
        ELSE /\ response' = ok(<< >>)
             /\ UNCHANGED users_db
  /\ UNCHANGED <<scanVars, rain_alerts_log, prefs_file, threadVars, botVars,
                 morningVars, reportVars>>

\* A cron request with a signature that does not verify: 403, nothing run.
Rejected(route, sig) ==
  /\ response' = Answer(route, 403, "Unauthorized", sig, FALSE, 0, NoText, << >>)
  /\ UNCHANGED <<scanVars, dbVars, prefs_file, threadVars, botVars,
                 morningVars, reportVars>>

\* Lines 637-652: POST /trigger-rain-check.  With a verified signature
\* check_and_send_rain_alerts runs (the cron service calls once per
\* instant) and the request is answered 200 when it returns.
trigger_rain_check(sig) ==
  IF verify_cron_signature(sig)
  THEN /\ WebFree
       /\ lastScan < now
       /\ StartRun(1)
       /\ response' = Answer("trigger-rain-check", 200, "success", sig, TRUE,
                             0, NoText, << >>)
       /\ UNCHANGED started
  ELSE Rejected("trigger-rain-check", sig)

\* Lines 654-669: POST /trigger-morning-reports.
trigger_morning_reports(sig) ==
  IF verify_cron_signature(sig)
  THEN /\ WebFree
       /\ LoadMorning
       /\ response' = Answer("trigger-morning-reports", 200, "success", sig,
                             TRUE, 0, NoText, << >>)
  ELSE Rejected("trigger-morning-reports", sig)

\* The web service at 09:00 with rain ahead: users.db holds no row yet or
\* the rows of enrolled users, rain_alerts_log is empty, there is no
\* user_preferences.json (render_webhook.py writes none), and the
\* collaborators of the scan answer.
InitWeb ==
  /\ now = 9 * HourMinutes
  /\ forecast \in Forecasts(now)
  /\ ExtractIdle
  /\ tracker_file = EmptyDict
  /\ file_partial = FALSE
  /\ disk = "ok"
  /\ pauses = MaxPauses
  /\ RunsIdle
  /\ users_db \in {NoRows, UsersTable}
  /\ rain_alerts_log = << >>
  /\ PrefsIdle
  /\ ThreadsIdle
  /\ BotIdle
  /\ WebIdle
  /\ MorningIdle
  /\ ReportIdle
  /\ AdminIdle
  /\ CacheIdle

NextWeb ==
  \/ \E u \in WebUsers, text \in WebTexts, token_ok \in BOOLEAN :
       webhook(u, text, token_ok)
  \/ \E sig \in Signatures : trigger_rain_check(sig)
  \/ \E sig \in Signatures : trigger_morning_reports(sig)
  \/ CheckUser(1)
  \/ SendAlert(1)
  \/ MarkLoad(1)
  \/ SaveOpen(1)
  \/ SaveDump(1)
  \/ FinishRun(1)

SpecWeb == InitWeb /\ [][NextWeb]_vars

\* ------------------------------------------------------ claims on the scan

SentIdx == 1..Len(sent)
SameKey(a, b) == a.user = b.user /\ a.city = b.city /\ a.hhmm = b.hhmm

\* Alerts delivered for the key of user u and clock time hhmm less than
\* six hours before now.
RecentSends(u, hhmm) ==
  { i \in SentIdx : /\ sent[i].user = u /\ sent[i].hhmm = hhmm
                    /\ now - sent[i].at < 6 * 60 }

\* C1: in sequential runs, two alerts sent for one ledger key (user, city,
\* rain time HH:MM) are at least 6 hours apart; a run that selects an event
\* alerted less than 6 hours before sends nothing and counts the user as
\* skipped, so two runs in immediate succession send exactly one alert.
C1_OneSendPerCooldown ==
  /\ \A i, j \in SentIdx :
       (i < j /\ SameKey(sent[i], sent[j])) => sent[j].at - sent[i].at >= 6 * 60
  /\ \A r \in Runs :
       /\ pc[r] = "send" => RecentSends(last[r].user, last[r].hhmm) = {}
       /\ last[r].result = "sent" =>
            Cardinality(RecentSends(last[r].user, last[r].hhmm)) = 1
       /\ last[r].result = "skipped" =>
            /\ skipped_alerts[r] >= 1
            /\ Cardinality(RecentSends(last[r].user, last[r].hhmm)) = 1

\* C1 witness: a second run started at the instant of the first one has
\* just skipped a user whose alert the first run delivered.
C1_Witness ==
  /\ last[1].result = "skipped"
  /\ skipped_alerts[1] = 1
  /\ alerts_sent[1] = 0
  /\ \E i \in SentIdx : /\ sent[i].user = last[1].user
                         /\ sent[i].hhmm = last[1].hhmm
                         /\ sent[i].at = now

\* C2: of two concurrent runs that select the same user, city and event, at
\* most one sends the alert.
C2_AtMostOneSendPerEvent ==
  \A i, j \in SentIdx :
    (SameKey(sent[i], sent[j]) /\ sent[i].event = sent[j].event) => i = j

\* No run is inside mark_alert_as_sent.
NoMarkInProgress == \A r \in Runs : pc[r] \notin {"mark", "save", "dump"}

\* C3: once the mark_alert_as_sent calls for two different users have
\* returned, the saved ledger holds the entries of both users.
C3_BothUsersRecorded ==
  NoMarkInProgress =>
    \A i, j \in SentIdx :
      sent[i].user # sent[j].user =>
        /\ EventKey(sent[i].user, sent[i].city, sent[i].hhmm) \in DOMAIN tracker_file
        /\ EventKey(sent[j].user, sent[j].city, sent[j].hhmm) \in DOMAIN tracker_file

\* The instants of the qualifying rain events of the forecast, over the
\* days a behaviour can span.
EventTimes ==
  LET wet == { h \in 0..23 : \/ forecast[h][1] >= 1 /\ forecast[h][2] >= 20
                             \/ forecast[h][3] \in RainCodes }
  IN { d * DayMinutes + h * HourMinutes : d \in 0..3, h \in wet }

\* Runs have been at most 30 minutes apart since before the alert window of
\* the event at T opened, the latest one started inside or after the window
\* and has returned, and no collaborator has failed.
ScannedThrough(T) ==
  /\ AllIdle
  /\ faults = 0
  /\ since >= 0
  /\ since <= T - 75
  /\ lastScan >= T - 75

\* C4: every qualifying rain event at time T of an enrolled user is
\* alerted by some scan earlier than T - 15 minutes, for every clock time T
\* of the day, when scans run at least every 30 minutes and nothing fails.
C4_EveryEventWarned ==
  \A T \in EventTimes : \A u \in Users :
    ScannedThrough(T) =>
      \E i \in SentIdx : /\ sent[i].user = u
                         /\ sent[i].event = T
                         /\ sent[i].at < T - 15

\* C5: a step of one user's pass that raises adds one to the error count
\* and moves the loop to the next user; the loop never skips a user and the
\* run ends only after the last user.
C5_BatchIsolation ==
  [][ \A r \in Runs :
        /\ (last'[r] # last[r] /\ last'[r].result = "error")
             => errors'[r] = errors[r] + 1
        /\ errors'[r] = errors[r] + 1
             => /\ idx'[r] = idx[r] + 1
                /\ pc'[r] = "loop"
                /\ alerts_sent'[r] = alerts_sent[r]
                /\ users_with_alerts'[r] = users_with_alerts[r]
        /\ (pc[r] # "idle" /\ idx'[r] # idx[r]) => idx'[r] = idx[r] + 1
        /\ (pc[r] # "idle" /\ pc'[r] = "idle")
             => idx[r] > Len(users_with_alerts[r]) ]_vars

\* C5 witness: a run over three users of which one raised has finished its
\* loop with two alerts sent and one error.
C5_Witness ==
  /\ LoopDone(1)
  /\ Len(users_with_alerts[1]) = 3
  /\ alerts_sent[1] = 2
  /\ errors[1] = 1

\* ------------------------------------------------- claims on the extractor

\* Indices of the events of a list, and of the points of the series.
EventIdx == 1..Len(rain_events)
PointIdx == 1..Len(hourly_data.time)
PointTime(i) == Localize(hourly_data.time[i], tz_string)
PointPrecip(i) == FieldAt(hourly_data.precipitation, i)
PointProb(i) == FieldAt(hourly_data.precipitation_probability, i)
PointCode(i) == FieldAt(hourly_data.weather_code, i)
Returned(i) == \E e \in EventIdx : rain_events[e].time = PointTime(i)
Called == ext_pc = "done" /\ "time" \in hourly_data.keys
            /\ "precipitation" \in hourly_data.keys

\* C6: no event returned by get_detailed_rain_alert has a time less than or
\* equal to the reference now.
C6_NoPastEvents ==
  ext_pc = "done" => \A e \in EventIdx : rain_events[e].time > now

\* C6 witness: a call whose series holds a rainy point at or before now and
\* a rainy point after it, and that returned an event.
C6_Witness ==
  /\ Called /\ rain_events # << >>
  /\ \E i \in PointIdx : PointTime(i) = now
        /\ IsRainEvent(PointPrecip(i), PointProb(i), PointCode(i))

\* C7: no event returned by get_detailed_rain_alert(hours=H) is later than
\* now + H hours, whatever the first timestamp of the series.
C7_HorizonBound ==
  ext_pc = "done" =>
    \A e \in EventIdx : rain_events[e].time <= now + ext_hours * HourMinutes

\* C8: every qualifying point with now < timestamp <= now + H hours is
\* returned, whatever its index in the series.
C8_TimeBoundedScan ==
  Called =>
    \A i \in PointIdx :
      ( /\ PointTime(i) > now
        /\ PointTime(i) <= now + ext_hours * HourMinutes
        /\ IsRainEvent(PointPrecip(i), PointProb(i), PointCode(i)) )
      => Returned(i)

Rank(name) ==
  IF name \in {"light", "leggera"} THEN 1
  ELSE IF name \in {"moderate", "moderata"} THEN 2
  ELSE IF name \in {"heavy", "forte"} THEN 3
  ELSE 0

\* C10: the intensity of an event is light if a <= 2.5 mm, moderate if
\* 2.5 < a <= 7.5, heavy if a > 7.5, so it never decreases with a.
C10_IntensitySteps ==
  ext_pc = "done" =>
    /\ \A e \in EventIdx :
         LET a == rain_events[e].precipitation
             r == Rank(rain_events[e].intensity)
         IN /\ (a <= 25) => r = 1
            /\ (a > 25 /\ a <= 75) => r = 2
            /\ (a > 75) => r = 3
    /\ \A e1, e2 \in EventIdx :
         rain_events[e1].precipitation <= rain_events[e2].precipitation
           => Rank(rain_events[e1].intensity) <= Rank(rain_events[e2].intensity)

\* C10 witness: a call that returned events of all three intensities, one
\* of them exactly at the 2.5 mm threshold.
C10_Witness ==
  /\ ext_pc = "done"
  /\ \E e1, e2, e3 \in EventIdx :
       /\ rain_events[e1].precipitation = 25
       /\ Rank(rain_events[e1].intensity) = 1
       /\ Rank(rain_events[e2].intensity) = 2
       /\ Rank(rain_events[e3].intensity) = 3

\* C17: get_detailed_rain_alert never raises, whatever the series and the
\* timezone identifier its callers hand in.
C17_NeverRaises == ext_pc # "raised"

\* --------------------------------------------- claims on the window pick

\* Lead time of the e-th event of the list, in minutes.
Lead(e) == rain_events[e].time - now

\* Events of the list whose lead time is strictly between 15 and 90 minutes.
Eligible == { e \in EventIdx : 15 < Lead(e) /\ Lead(e) < 90 }

\* C11: the pick is a single event or none; it is none exactly when no
\* event of the list is inside the alert window, and otherwise it is the
\* earliest event inside the window, whatever the intensity of later ones.
C11_EarliestInWindow ==
  ext_pc = "selected" =>
    /\ (selected = NoEvent) <=> (Eligible = {})
    /\ selected # NoEvent =>
         /\ \E e \in Eligible : rain_events[e] = selected
         /\ \A e \in Eligible : selected.time <= rain_events[e].time

\* C11 witness: two events are inside the window, the later one of higher
\* intensity, and the earlier one has been picked.
C11_Witness ==
  /\ ext_pc = "selected"
  /\ \E e1, e2 \in Eligible :
       /\ rain_events[e1].time < rain_events[e2].time
       /\ Rank(rain_events[e1].intensity) < Rank(rain_events[e2].intensity)
       /\ selected = rain_events[e1]

\* C12: an event is picked only if 15 min < lead time < 90 min; an event
\* exactly 15 or exactly 90 minutes ahead is never picked, and an event
\* strictly inside is enough for a pick.
C12_OpenWindow ==
  ext_pc = "selected" =>
    /\ selected # NoEvent =>
         (15 < selected.time - now /\ selected.time - now < 90)
    /\ \A e \in EventIdx :
         Lead(e) \in {15, 90} => selected # rain_events[e]
    /\ (\E e \in EventIdx : Lead(e) \in 16..89) => selected # NoEvent

\* C12 witness: the list holds an event exactly 15 minutes ahead and one 75
\* minutes ahead, and the pick is the second.
C12_Witness ==
  /\ ext_pc = "selected"
  /\ \E e1, e2 \in EventIdx :
       /\ Lead(e1) = 15
       /\ Lead(e2) = 75
       /\ selected = rain_events[e2]

\* C16: a run that could not load the enrolled users ends with a top-level
\* error, not with the report of a run that found no enrolled user.
C16_LoadFailureReported ==
  [][ (pc[1] = "idle" /\ faults' = faults + 1) =>
        /\ last'[1].result = "critical_error"
        /\ last'[1] # NoUsers
    ]_vars

\* C19: one user never receives two rain alerts less than 6 hours apart,
\* whatever the rain times of the two alerts.
C19_SixHoursBetweenAlerts ==
  \A i, j \in SentIdx :
    (i < j /\ sent[i].user = sent[j].user) => sent[j].at - sent[i].at >= 6 * 60

\* C20: every rain alert is sent between 7:00 and 22:00 local time, both
\* ends included.
C20_OnlyBetween7And22 ==
  \A i \in SentIdx :
    7 * 60 <= sent[i].at % DayMinutes /\ sent[i].at % DayMinutes <= 22 * 60

\* ------------------------------------------------- claims on the ledger

\* The step in which run r, having picked an event for its current user,
\* gets the answer of has_alert_been_sent_recently: it goes on to send, or
\* counts the user as skipped.
PickedStep(r) ==
  /\ pc[r] = "loop"
  /\ \/ pc'[r] = "send"
     \/ idx'[r] = idx[r] + 1 /\ last'[r].result = "skipped"

\* The step in which the save of mark_alert_as_sent for run r succeeds.
SavedStep(r) == pc[r] = "dump" /\ pc'[r] = "loop" /\ disk = "ok"

\* The ledger key of the user and event run r dealt with last, after the
\* step.
LastKey(r) == EventKey(last'[r].user, UserCity(last'[r].user), last'[r].hhmm)

\* The file read before the step holds, under key k, a timestamp less than
\* six hours old.
RecentIn(k) ==
  /\ ~file_partial
  /\ k \in DOMAIN tracker_file
  /\ tracker_file[k] >= 0
  /\ now - tracker_file[k] < 6 * 60

\* C13: for a picked event the scan goes on to send exactly when the ledger
\* holds no timestamp less than 6 hours old under the key, so an entry 6
\* hours old or older never blocks the new alert; the successful mark sets
\* the key's entry to now and adds no other key.
C13_ExpiredKeySendsAgain ==
  [][ \A r \in Runs :
        /\ PickedStep(r) => (pc'[r] = "send" <=> ~RecentIn(LastKey(r)))
        /\ SavedStep(r) =>
             /\ LastKey(r) \in DOMAIN tracker_file'
             /\ tracker_file'[LastKey(r)] = now
             /\ DOMAIN tracker_file' \subseteq DOMAIN tracker_file \cup {LastKey(r)}
    ]_vars

\* C13 witness: the key of the picked event has an entry exactly six hours
\* old and the run is about to send the alert.
C13_Witness ==
  /\ pc[1] = "send"
  /\ ~file_partial
  /\ LET k == EventKey(last[1].user, UserCity(last[1].user), last[1].hhmm)
     IN /\ k \in DOMAIN tracker_file
        /\ now - tracker_file[k] = 6 * 60

\* C14: the file a successful mark_alert_as_sent saves parses and holds no
\* entry whose timestamp is unparseable or more than 24 hours old.
C14_MarkPrunes ==
  [][ \A r \in Runs :
        SavedStep(r) =>
          /\ ~file_partial'
          /\ \A k \in DOMAIN tracker_file' :
               /\ tracker_file'[k] >= 0
               /\ now - tracker_file'[k] <= 24 * 60
    ]_vars

\* C14 witness: mark_alert_as_sent is about to save; the file still holds
\* an entry with an unparseable timestamp and one more than 24 hours old,
\* the dictionary to be saved holds neither.
C14_Witness ==
  /\ pc[1] = "save"
  /\ disk = "ok"
  /\ ~file_partial
  /\ \E k1, k2 \in DOMAIN tracker_file :
       /\ tracker_file[k1] < 0
       /\ tracker_file[k2] >= 0 /\ now - tracker_file[k2] > 24 * 60
       /\ k1 \notin DOMAIN tracker[1]
       /\ k2 \notin DOMAIN tracker[1]
  /\ \A k \in DOMAIN tracker[1] :
       tracker[1][k] >= 0 /\ now - tracker[1][k] <= 24 * 60

\* C15: when the ledger file is missing or does not parse, the scan goes on
\* to send the alert of a picked event; a write of the ledger that fails
\* adds no error, and the loop counts the alert and moves to the next user.
C15_LedgerFailOpen ==
  [][ \A r \in Runs :
        /\ (PickedStep(r) /\ file_partial) => pc'[r] = "send"
        /\ pc[r] \in {"mark", "save", "dump"} => errors'[r] = errors[r]
        /\ (pc[r] \in {"save", "dump"} /\ pc'[r] = "loop" /\ disk # "ok") =>
             /\ idx'[r] = idx[r] + 1
             /\ alerts_sent'[r] = alerts_sent[r] + 1
             /\ users_with_alerts'[r] = users_with_alerts[r]
    ]_vars

\* C15 witness: on a disk that is full, with the ledger file left
\* unparseable, a run has sent the alert to every one of its users and
\* counted no error.
C15_Witness ==
  /\ LoopDone(1)
  /\ disk = "full"
  /\ file_partial
  /\ Len(users_with_alerts[1]) >= 2
  /\ alerts_sent[1] = Len(users_with_alerts[1])
  /\ errors[1] = 0

\* C18: for the series with 0.2 mm at 30 % twenty minutes ahead and 3.0 mm
\* at 60 % forty minutes ahead, the first point is dropped and the event
\* picked for the alert is the second, classified moderate.
C18_ScenarioPicksSecondPoint ==
  (ext_pc = "selected" /\ hourly_data = ScenarioHourly(now)) =>
    /\ Len(rain_events) = 1
    /\ selected.time = now + 40
    /\ Rank(selected.intensity) = 2

\* --------------------------------------------- claims on one user's pass

\* The ledger key of the i-th alert delivered.
SentKey(i) == EventKey(sent[i].user, sent[i].city, sent[i].hhmm)

\* C29: within one user's pass the send follows the cooldown check and the
\* record follows the send: a run reaches the send only from the loop, with
\* no entry less than six hours old under the key, and reaches
\* mark_alert_as_sent only from a send that delivered; a timestamp appears
\* under a key of the ledger file only if an alert for that key was
\* delivered at that instant; and a send that raises leaves the ledger file
\* and the list of delivered alerts as they were, adds one to errors and
\* nothing to alerts_sent.
C29_RecordOnlyAfterSend ==
  [][ /\ \A r \in Runs :
           /\ (pc'[r] = "send" /\ pc[r] # "send") =>
                /\ pc[r] = "loop"
                /\ ~RecentIn(LastKey(r))
                /\ sent' = sent
           /\ (pc'[r] = "mark" /\ pc[r] # "mark") =>
                /\ pc[r] = "send"
                /\ Len(sent') = Len(sent) + 1
                /\ EventKey(sent'[Len(sent')].user, sent'[Len(sent')].city,
                            sent'[Len(sent')].hhmm)
                     = EventKey(users_with_alerts[r][idx[r]],
                       get_user_city(users_db, users_with_alerts[r][idx[r]]),
                       first_rain[r].hhmm)
           /\ (pc[r] = "send" /\ pc'[r] = "loop") =>
                /\ errors'[r] = errors[r] + 1
                /\ alerts_sent'[r] = alerts_sent[r]
                /\ last'[r].result = "error"
                /\ sent' = sent
                /\ tracker_file' = tracker_file
                /\ file_partial' = file_partial
      /\ \A k \in DOMAIN tracker_file' :
           (k \notin DOMAIN tracker_file \/ tracker_file'[k] # tracker_file[k])
             => \E i \in SentIdx : SentKey(i) = k /\ sent[i].at = tracker_file'[k]
    ]_vars

\* C29 witness: in one run the alert of the first user was delivered and
\* recorded, and the send to the second user raised: one alert and one
\* error are counted, and the ledger holds the first user's key only.
C29_Witness ==
  /\ pc[1] = "loop"
  /\ last[1].result = "error"
  /\ last[1].hhmm >= 0
  /\ errors[1] = 1
  /\ alerts_sent[1] = 1
  /\ Len(sent) = 1
  /\ sent[1].user # last[1].user
  /\ SentKey(1) \in DOMAIN tracker_file
  /\ EventKey(last[1].user, get_user_city(users_db, last[1].user), last[1].hhmm)
       \notin DOMAIN tracker_file

\* C30: a user whose city gives no coordinates, or for whom no forecast is
\* returned, is skipped for this scan: no alert is delivered in that step,
\* the ledger file and the three counters are unchanged, and the loop moves
\* on to the next user.
C30_SkipOnNoData ==
  [][ \A r \in Runs :
        (last'[r] # last[r] /\ last'[r].result \in {"no_coords", "no_forecast"})
          => /\ sent' = sent
             /\ tracker_file' = tracker_file
             /\ file_partial' = file_partial
             /\ alerts_sent'[r] = alerts_sent[r]
             /\ skipped_alerts'[r] = skipped_alerts[r]
             /\ errors'[r] = errors[r]
             /\ idx'[r] = idx[r] + 1
             /\ pc'[r] = "loop"
             /\ users_with_alerts'[r] = users_with_alerts[r]
    ]_vars

\* C30 witness: the first run of the day has ended its loop; the first user
\* was skipped for want of coordinates or forecast, both users after it got
\* their alerts, and no error and no duplicate was counted.
C30_Witness ==
  /\ LoopDone(1)
  /\ ticks = 0
  /\ faults = 1
  /\ Len(users_with_alerts[1]) = 3
  /\ Len(sent) = 2
  /\ sent[1].user = 2
  /\ sent[2].user = 3
  /\ alerts_sent[1] = 2
  /\ skipped_alerts[1] = 0
  /\ errors[1] = 0

\* ------------------------------------------ claims on the preferences file

\* The call of thread t is over.
CallOver(t) == t_pc[t] \in {"returned", "raised"}

\* The file holds the update of call op.
Stored(op) ==
  IF op.kind = "save_user_city"
  THEN prefs_file.cities[op.user] = op.city
  ELSE prefs_file.rain_alerts[op.user] = op.status

\* The two calls write different entries: different users, or a city and a
\* rain alert setting.
Disjoint(a, b) == a.user # b.user \/ a.kind # b.kind

\* C22: once two concurrent calls of save_user_city or
\* set_rain_alerts_status that write different entries are both over, the
\* stored preferences hold both updates.
C22_NoLostUpdate ==
  (CallOver(1) /\ CallOver(2) /\ Disjoint(t_op[1], t_op[2]))
    => Stored(t_op[1]) /\ Stored(t_op[2])

\* ------------------------------------------------ claims on the polling bot

\* The elements of a sequence.
Range(f) == { f[i] : i \in DOMAIN f }

\* C21: when the bot has confirmed a saved city to a user and has just
\* confirmed 'Rain alerts ACTIVATED' to that user, a run of
\* check_and_send_rain_alerts that starts next and reads the users without
\* failure has that user among the users it checks.
C21_EnrolmentTakesEffect ==
  [][ (lastScan' # lastScan /\ faults' = faults) =>
        \A u \in Users :
          (bot_reply.kind = "activated" /\ bot_reply.user = u
             /\ acked[u].city # "")
            => u \in Range(users_with_alerts'[1]) ]_vars

\* C23: once the bot has replied that city c is saved for user u, the
\* answer of /myweather to u is the forecast of c; and once it has
\* acknowledged a language to u, get_user_language(u) returns it.
C23_SaveLoadRoundTrip ==
  \A u \in Users :
    /\ (acked[u].city # "" /\ bot_reply.user = u
          /\ bot_reply.kind \in {"weather", "no_city"})
         => (bot_reply.kind = "weather" /\ bot_reply.city = acked[u].city)
    /\ acked[u].lang # "" => bot_get_user_language(prefs_file, u) = acked[u].lang

\* ---------------------------------------------- claims on the weather report

\* C25: get_complete_weather_report never raises; it returns success=True
\* whenever the city resolves and a forecast is returned, at every hour of
\* the day, and success=False only when the city is not found or no
\* forecast is returned.
C25_ReportNeverRaises ==
  report_out.outcome # "unused" =>
    /\ report_out.outcome = "returned"
    /\ report_out.success = (report_in.found /\ report_in.fetched)

\* --------------------------------------------- claims on the morning reports

CronRoutes == {"trigger-rain-check", "trigger-morning-reports"}

\* C24: when /myalerts is answered to a user with alerts active, every rain
\* alert the scan has delivered to that user in the last 24 hours is among
\* the recent alerts listed, and the statistic total_rain_alerts_sent
\* counts at least the alerts delivered.
C24_SentAlertsVisible ==
  [][ ( /\ response' # response
        /\ response'.route = "webhook"
        /\ response'.status = 200
        /\ response'.text.cmd = "/myalerts" )
      => \A i \in SentIdx :
           ( /\ sent[i].user = response'.user
             /\ sent[i].at > now - 24 * HourMinutes
             /\ get_rain_alerts_status(users_db, sent[i].user)
             /\ get_user_city(users_db, sent[i].user) # "" )
           => /\ \E j \in DOMAIN response'.listed :
                   /\ response'.listed[j].user = sent[i].user
                   /\ response'.listed[j].sent_at = sent[i].at
              /\ total_rain_alerts_sent(rain_alerts_log) >= Len(sent)
    ]_vars

\* C27: a request to /trigger-rain-check or /trigger-morning-reports is
\* answered 403 exactly when its X-Cron-Signature header is missing or
\* differs from the expected signature, and such a request starts no scan
\* and no morning run, sends no message and changes neither the ledger nor
\* the database; a scan starts only in a request to /trigger-rain-check
\* that carries the expected signature and is answered 200.
C27_CronNeedsSignature ==
  [][ /\ (response' # response /\ response'.route \in CronRoutes) =>
           /\ (response'.status = 403) = (response'.signature # expected_signature)
           /\ response'.status = 403 =>
                UNCHANGED <<scanVars, dbVars, prefs_file, morningVars>>
      /\ (lastScan' # lastScan \/ (pc'[1] # pc[1] /\ pc[1] = "idle")) =>
           /\ response'.route = "trigger-rain-check"
           /\ response'.signature = expected_signature
           /\ response'.status = 200
    ]_vars

\* C27 witness: users are enrolled and rain is 60 minutes ahead; a request
\* to /trigger-rain-check with a wrong signature has been answered 403 and
\* no scan has started and no alert been sent.
C27_Witness ==
  /\ response.route = "trigger-rain-check"
  /\ response.signature = "other"
  /\ response.status = 403
  /\ get_all_users_with_rain_alerts(users_db) # << >>
  /\ UpcomingRain(get_detailed_rain_alert(HourlyAt(now), "Europe/Rome", "en",
                                          DefaultHours, now), now) # << >>
  /\ lastScan = -1
  /\ sent = << >>
  /\ tracker_file = EmptyDict

\* C28: every POST to /webhook that passes the secret check is answered
\* ('OK', 200), whatever the command.
C28_WebhookAlwaysOk ==
  (response.route = "webhook" /\ response.passed)
    => (response.status = 200 /\ response.body = "OK")


\* ------------------------------------- claims on the scan with two events

\* The events inside the alert window for user u at this instant.
UpcomingFor(u) ==
  UpcomingRain(get_detailed_rain_alert(HourlyAt(now), "Europe/Rome",
                                       get_user_language(users_db, u),
                                       DefaultHours, now), now)

\* Alerts delivered to user u by the scan started at this instant.
SentThisScan(u) == { i \in SentIdx : sent[i].user = u /\ sent[i].at = now }

\* C31: one scan sends at most one rain alert to each enrolled user (a
\* delivery to a user is the first of the scan to that user), and when the
\* earliest event inside the window is within its cooldown the pass of
\* that user ends without a send, counted as skipped, whether or not a
\* later event inside the window has been announced.
C31_OneAlertPerScan ==
  [][ \A r \in Runs :
        /\ (sent' # sent /\ pc[r] = "send") =>
             /\ Len(sent') = Len(sent) + 1
             /\ sent'[Len(sent')].user = users_with_alerts[r][idx[r]]
             /\ SentThisScan(users_with_alerts[r][idx[r]]) = {}
        /\ ( /\ pc[r] = "loop"
             /\ idx[r] <= Len(users_with_alerts[r])
             /\ idx'[r] # idx[r] \/ pc'[r] # pc[r]
             /\ faults' = faults
             /\ UpcomingFor(users_with_alerts[r][idx[r]]) # << >>
             /\ has_alert_been_sent_recently(load_tracker,
                  users_with_alerts[r][idx[r]],
                  get_user_city(users_db, users_with_alerts[r][idx[r]]),
                  UpcomingFor(users_with_alerts[r][idx[r]])[1].hhmm,
                  cooldown_hours, now) )
             => /\ pc'[r] = "loop"
                /\ idx'[r] = idx[r] + 1
                /\ skipped_alerts'[r] = skipped_alerts[r] + 1
                /\ UNCHANGED <<sent, alerts_sent, tracker_file>>
    ]_vars

\* C31 witness: rain at 10:00 and at 11:00 is inside the window, the alert
\* for 10:00 was sent to user 1 by an earlier scan, and the scan under way
\* has passed user 1 over as skipped although the event of 11:00 is
\* neither in the ledger nor among the alerts sent.
C31_Witness ==
  /\ last[1].result = "skipped"
  /\ last[1].user = 1
  /\ Len(UpcomingFor(1)) = 2
  /\ last[1].hhmm = UpcomingFor(1)[1].hhmm
  /\ SentThisScan(1) = {}
  /\ \E i \in SentIdx : sent[i].user = 1 /\ sent[i].hhmm = last[1].hhmm
  /\ EventKey(1, get_user_city(users_db, 1), UpcomingFor(1)[2].hhmm)
       \notin DOMAIN tracker_file
  /\ \A i \in SentIdx : sent[i].hhmm # UpcomingFor(1)[2].hhmm


\* --------------------------------------------- claims on the admin summary

\* C32: when a run returns, the admin summary has been attempted exactly
\* when ADMIN_USER_ID is set and one of the three counts is positive; an
\* attempt, failed or not, carries the counts of the run, comes with the
\* normal return of the run and leaves the ledger file and the alerts sent
\* to users as they were.
C32_SummaryBestEffort ==
  [][ \A r \in Runs :
        (pc[r] # "idle" /\ pc'[r] = "idle") =>
          /\ (admin_summary'.outcome # "not_attempted")
               = /\ ADMIN_USER_ID # ""
                 /\ alerts_sent[r] + skipped_alerts[r] + errors[r] > 0
          /\ admin_summary'.outcome \in {"sent", "failed"} =>
               /\ admin_summary'.alerts_sent = alerts_sent[r]
               /\ admin_summary'.skipped_alerts = skipped_alerts[r]
               /\ admin_summary'.errors = errors[r]
          /\ UNCHANGED <<tracker_file, file_partial, sent, users_db,
                         rain_alerts_log>>
    ]_vars

\* C32 witness: a run that alerted all three users has returned after the
\* send of its summary to the admin failed; the three alerts are in the
\* ledger.
C32_Witness ==
  /\ ADMIN_USER_ID = "12345"
  /\ pc[1] = "idle"
  /\ admin_summary = Summary("failed", 3, 0, 0)
  /\ faults = 1
  /\ Len(sent) = 3
  /\ Cardinality(DOMAIN tracker_file) = 3


\* ------------------------------------------ claims on a mark of the ledger

\* The entries of dictionary d, other than key k, whose timestamp is valid
\* and not older than 24 hours at instant nowv.
KeptKeys(d, k, nowv) ==
  { x \in DOMAIN d : /\ x # k
                     /\ Parseable(d[x])
                     /\ nowv - d[x] <= 24 * 60 }

\* C33: when mark_alert_as_sent for key k has read the ledger and prepared
\* the dictionary it saves, every other entry of the ledger file with a
\* valid timestamp not older than 24 hours is in that dictionary with its
\* value, also when the read of the file failed.
C33_MarkChangesOnlyKey ==
  [][ \A r \in Runs :
        (pc[r] = "mark" /\ pc'[r] = "save") =>
          \A x \in KeptKeys(tracker_file,
                            EventKey(users_with_alerts[r][idx[r]],
                                     get_user_city(users_db, users_with_alerts[r][idx[r]]),
                                     first_rain[r].hhmm), now) :
            /\ x \in DOMAIN tracker'[r]
            /\ tracker'[r][x] = tracker_file[x]
    ]_vars


\* C34: the dictionary mark_alert_as_sent prepares from the ledger it read
\* keeps every entry for which has_alert_been_sent_recently, asked with the
\* cooldown of 6 hours at that instant, returns True.
C34_PruneKeepsCooldowns ==
  [][ \A r \in Runs :
        (pc[r] = "mark" /\ pc'[r] = "save") =>
          \A x \in DOMAIN load_tracker :
            has_alert_been_sent_recently(load_tracker, x[1], x[2], x[3],
                                         cooldown_hours, now)
              => /\ x \in DOMAIN tracker'[r]
                 /\ Parseable(tracker'[r][x])
    ]_vars

\* C34 witness: mark_alert_as_sent has prepared its dictionary for one
\* user; it dropped an entry of the file and kept the entry of another
\* user that is still within its cooldown.
C34_Witness ==
  /\ pc[1] = "save"
  /\ ~file_partial
  /\ \E y \in DOMAIN tracker_file : y \notin DOMAIN tracker[1]
  /\ \E x \in DOMAIN tracker_file :
       /\ x[1] # users_with_alerts[1][idx[1]]
       /\ has_alert_been_sent_recently(tracker_file, x[1], x[2], x[3],
                                       cooldown_hours, now)
       /\ x \in DOMAIN tracker[1]
       /\ tracker[1][x] = tracker_file[x]


\* --------------------------------------------- claims on the lookup cache

\* C35: the caches never hold a failed city resolution or an empty
\* forecast; a get_coordinates call that follows a failed one for the same
\* key performs a fetch, and a get_weather call that follows a failed one
\* enters _fetch_weather.
C35_FailuresNotCached ==
  [][ /\ \A k \in DOMAIN coordinates_cache' :
           coordinates_cache'[k][1] # NotLocated
      /\ \A k \in DOMAIN weather_cache' :
           weather_cache'[k][1] \notin {"None", "{}"}
      /\ \A k \in CacheKeys :
           (c_last[k].result = NotLocated /\ c_last'[k] # c_last[k])
             => c_last'[k].fetched
      /\ ( /\ w_last.result \in {"None", "{}"}
           /\ w_pc = "idle"
           /\ (w_pc' # w_pc \/ w_last' # w_last) )
           => w_pc' = "fetch"
    ]_vars

\* C35 witness: the coordinates of Roma were cached and have expired, the
\* fetch that followed failed and left the cache as it was; the latest
\* forecast lookup failed and a new one is inside _fetch_weather.
C35_Witness ==
  /\ c_last["roma"] = [result |-> NotLocated, fetched |-> TRUE]
  /\ "roma" \in DOMAIN coordinates_cache
  /\ now - coordinates_cache["roma"][2] >= COORDINATES_CACHE_DURATION
  /\ w_last = [result |-> "None", fetched |-> TRUE]
  /\ WeatherKey \notin DOMAIN weather_cache
  /\ w_pc = "fetch"

\* C36: _fetch_weather makes at most 2 HTTP attempts: every pass of its
\* loop either returns the answer it met (one that is neither a 429 nor an
\* exception) or moves on to the next attempt; it returns None exactly when
\* two attempts have failed; and a call that has entered it returns.
C36_FetchBounded ==
  /\ [][ /\ attempt' <= max_retries
         /\ Len(responses') = attempt'
         /\ (w_pc = "fetch" /\ w_pc' = "fetch") =>
              /\ attempt' = attempt + 1
              /\ responses'[attempt'] \in {"429", "raise", "not_json"}
         /\ (w_pc = "fetch" /\ w_pc' = "idle") =>
              /\ w_last'.fetched
              /\ (w_last'.result = "None") = (attempt = max_retries)
              /\ w_last'.result # "None" =>
                   w_last'.result \in {"forecast", "error_body", "{}"}
       ]_vars
  /\ (w_pc = "fetch") ~> (w_pc = "idle")

\* C36 witness: the first attempt was rate-limited, the second raised, and
\* the loop of _fetch_weather is over.
C36_Witness ==
  /\ w_pc = "fetch"
  /\ attempt = max_retries
  /\ responses = <<"429", "raise">>

====
